---------------------------- MODULE Spec2Model ----------------------------
(***************************************************************************)
(* A model of harp.js' tile addressing (TileOffsetUtils), text render      *)
(* order (TextElementBuilder.composeRenderOrder), feature-state storage    *)
(* (DataSource) and per-frame object pass (TileObjectRenderer).            *)
(*                                                                         *)
(* Numbers wider than TLC's 32-bit integers (53-bit tile keys, 64-bit      *)
(* render orders) are kept at their real width as little-endian sequences  *)
(* of 16-bit limbs.                                                        *)
(***************************************************************************)
EXTENDS Integers, Sequences, FiniteSets, TLC

VARIABLES
    \* ---- TileOffsetUtils (one encode / decode round trip) ----
    kTile,          \* the TileKey handed to getKeyForTileKeyAndOffset
    kOffset,        \* the offset handed to getKeyForTileKeyAndOffset
    kBitshift,      \* the bitshift handed to getKeyForTileKeyAndOffset
    kKey,           \* the key returned (limbs), or NoKey
    kDecoded,       \* the result of extractOffsetAndMortonKeyFromKey, or NoKey
    kPc,            \* "input" | "encoded" | "decodedSame" | "decodedDefault"
    \* ---- TextElementBuilder.composeRenderOrder (two composed orders) ----
    oBase1, oTech1, \* the arguments of the first call
    oBase2, oTech2, \* the arguments of the second call
    oKey1, oKey2,   \* the two results (limbs), or NoKey
    oPc,            \* "input" | "composed"
    \* ---- DataSource ----
    m_featureStateMap,  \* DataSource.m_featureStateMap: feature id -> ValueMap
    dsCalls,            \* the feature-state calls made so far, in order
    \* ---- the opaque sort installed by TileObjectRenderer.setupRenderer ----
    sA, sB,         \* two render items of the list being sorted
    sAB, sBA,       \* painterSortStable(a, b) and painterSortStable(b, a)
    sPc,            \* "list" | "compared"
    \* ---- TileObjectRenderer and the tile it renders ----
    objects,        \* tile.objects
    m_stencilValue,             \* TileObjectRenderer.m_stencilValue
    m_renderOrderStencilValues, \* TileObjectRenderer.m_renderOrderStencilValues
    rootNode,       \* the children of the root node (indices into objects)
    seenRenderOrders,   \* history: the render orders handed to getStencilValue
                        \* since the last prepareRender, in order of first use
    stencilledInFrame,  \* history: the objects given a stencil reference since
                        \* the last prepareRender
    lastRender,     \* history: what the last render call did
    \* ---- DataSource attached to a MapView ----
    m_mapView,      \* DataSource.m_mapView
    mvCalls,        \* history: the attach / detach calls and the reads of
                    \* mapView / projection so far, with their outcomes
    \* ---- OmvDecodedTileEmitter ----
    emitter,        \* the fields of one OmvDecodedTileEmitter
    decodedTile,    \* the outcome of getDecodedTile, None before the call
    emitted,        \* history: the features handed to the emitter, in order
    \* ---- RoadPicker ----
    roadTile,       \* the Tile the RoadPicker is called with
    pickResults,    \* the results array handed to intersectRoads
    pickCalls,      \* history: the registerTile / intersectRoads calls so
                    \* far, with their outcomes
    \* ---- TextElementBuilder (its state between build calls) ----
    builder,        \* the fields of one TextElementBuilder
    builderCalls,   \* history: the calls on the builder since it was made,
                    \* with the TextElement of every build
    \* ---- willEventually and the Mocha hooks around it ----
    lastWaitedError,        \* the module's lastWaitedError, None for undefined
    afterHandlerInstalled,  \* the module's afterHandlerInstalled
    mochaCurrentTest,       \* the module's mochaCurrentTest, None for undefined
    testState,      \* the state field of every Mocha test
    runner,         \* where the Mocha runner is: the test it started last and
                    \* whether that test runs, has ended, or has had its hooks
    waits,          \* the willEventually calls so far: the variables of the
                    \* closure, the promise, the timer and the invocations
    ready,          \* whether the asynchronous work the tests wait for is done
    hookCalls,      \* history: the runs of the afterEach hook
    \* ---- addEdges and addWalls, one loop turn at a time ----
    walk

keyVars == <<kTile, kOffset, kBitshift, kKey, kDecoded, kPc>>

orderVars == <<oBase1, oTech1, oBase2, oTech2, oKey1, oKey2, oPc>>

dsVars == <<m_featureStateMap, dsCalls>>

sortVars == <<sA, sB, sAB, sBA, sPc>>

renderVars ==
    <<objects, m_stencilValue, m_renderOrderStencilValues, rootNode,
      seenRenderOrders, stencilledInFrame, lastRender>>

attachVars == <<m_mapView, mvCalls>>

\* The variables of the parts modelled first, and of those modelled after them.
firstVars == <<keyVars, orderVars, dsVars, sortVars, renderVars>>

emitterVars == <<emitter, decodedTile, emitted>>

pickVars == <<roadTile, pickResults, pickCalls>>

builderVars == <<builder, builderCalls>>

willVars ==
    <<lastWaitedError, afterHandlerInstalled, mochaCurrentTest, testState, runner, waits,
      ready, hookCalls>>

walkVars == <<walk>>

moreVars == <<attachVars, emitterVars, pickVars, builderVars, willVars, walkVars>>

\* Everything but the variables of one part.
exceptAttach == <<firstVars, emitterVars, pickVars, builderVars, willVars, walkVars>>

exceptEmitter == <<firstVars, attachVars, pickVars, builderVars, willVars, walkVars>>

exceptPick == <<firstVars, attachVars, emitterVars, builderVars, willVars, walkVars>>

exceptBuilder == <<firstVars, attachVars, emitterVars, pickVars, willVars, walkVars>>

exceptWill == <<firstVars, attachVars, emitterVars, pickVars, builderVars, walkVars>>

exceptWalk == <<firstVars, attachVars, emitterVars, pickVars, builderVars, willVars>>

vars == <<firstVars, moreVars>>

-----------------------------------------------------------------------------
(* Limb arithmetic *)

Limb == 2^16

NumLimbs == 1 + 3

Min(a, b) == IF a < b THEN a ELSE b

Max(a, b) == IF a < b THEN b ELSE a

\* A number is the sequence of its base-2^16 digits, lowest first; every digit
\* but the top one is in 0 .. 2^16 - 1 and the top digit carries the sign.
\* Normalize brings any sequence of integer digits into that form.
RECURSIVE NormalizeFrom(_, _, _)
NormalizeFrom(raw, i, carry) ==
    LET s == raw[i] + carry
    IN  IF i = Len(raw) THEN <<s>>
        ELSE <<s % Limb>> \o NormalizeFrom(raw, i + 1, s \div Limb)

Normalize(raw) == NormalizeFrom(raw, 1, 0)

AddLimbs(a, b) == Normalize([k \in 1..Len(a) |-> a[k] + b[k]])

\* a < b for two normalized numbers of the same length.
RECURSIVE LessFrom(_, _, _)
LessFrom(a, b, i) ==
    IF i = 0 THEN FALSE
    ELSE IF a[i] # b[i] THEN a[i] < b[i]
    ELSE LessFrom(a, b, i - 1)

Less(a, b) == LessFrom(a, b, Len(a))

-----------------------------------------------------------------------------
(* TileKey.mortonCode and TileOffsetUtils *)

\* Width of a key: the largest integer a JavaScript number holds exactly is
\* 2^53 - 1, and the offset lives in the highest of these 53 bits.
KeyBits == 53

\* The bitshift extractOffsetAndMortonKeyFromKey uses when none is given.
DefaultBitshift == 3

\* Bounds of the checked inputs.
MaxLevel == 25
MaxOffset == 9
MaxBitshift == 4

KeyLevels == {0, 1, 2, MaxLevel - 1, MaxLevel}

TileKeys ==
    {tk \in [row : {0, 1, 3, 2^(MaxLevel - 1) - 1, 2^MaxLevel - 1},
             column : {0, 1, 3, 2^(MaxLevel - 1) - 1, 2^MaxLevel - 1},
             level : KeyLevels] :
        tk.row < 2^tk.level /\ tk.column < 2^tk.level}

Offsets == (0 - MaxOffset)..MaxOffset

Bitshifts == 1..MaxBitshift

NoKey == <<>>

\* An optional value of the code: None for undefined, Some(x) otherwise.
None == <<>>

Some(x) == <<x>>

\* The JavaScript values of a technique's and a feature's properties.  A string
\* is the sequence of its characters.
JsUndefined == [type |-> "undefined", num |-> 0, str |-> <<>>, nan |-> FALSE]

JsNumber(n) == [type |-> "number", num |-> n, str |-> <<>>, nan |-> FALSE]

JsNaN == [type |-> "number", num |-> 0, str |-> <<>>, nan |-> TRUE]

JsString(chars) == [type |-> "string", num |-> 0, str |-> chars, nan |-> FALSE]

JsBoolean(b) == [type |-> "boolean", num |-> IF b THEN 1 ELSE 0, str |-> <<>>, nan |-> FALSE]

Get(opt) == opt[1]

OrderIdle ==
    /\ oBase1 = NoKey /\ oTech1 = NoKey /\ oBase2 = NoKey /\ oTech2 = NoKey
    /\ oKey1 = NoKey /\ oKey2 = NoKey /\ oPc = "idle"

AttachIdle == m_mapView = <<>> /\ mvCalls = <<>>

EmitterIdle == emitter = <<>> /\ decodedTile = <<>> /\ emitted = <<>>

PickIdle == roadTile = <<>> /\ pickResults = <<>> /\ pickCalls = <<>>

BuilderIdle == builder = <<>> /\ builderCalls = <<>>

WillIdle ==
    /\ lastWaitedError = <<>> /\ afterHandlerInstalled = <<>> /\ mochaCurrentTest = <<>>
    /\ testState = <<>> /\ runner = <<>> /\ waits = <<>> /\ ready = <<>> /\ hookCalls = <<>>

WalkIdle == walk = <<>>

MoreIdle == AttachIdle /\ EmitterIdle /\ PickIdle /\ BuilderIdle /\ WillIdle /\ WalkIdle

RenderIdle ==
    /\ objects = <<>>
    /\ m_stencilValue = 0 /\ m_renderOrderStencilValues = <<>>
    /\ rootNode = {} /\ seenRenderOrders = <<>> /\ stencilledInFrame = {}
    /\ lastRender = <<>>

SortIdle ==
    /\ sA = NoKey /\ sB = NoKey /\ sAB = 0 /\ sBA = 0 /\ sPc = "idle"

DataSourceIdle ==
    /\ m_featureStateMap = NoKey /\ dsCalls = NoKey

KeyIdle ==
    /\ kTile = NoKey /\ kOffset = 0 /\ kBitshift = 0
    /\ kKey = NoKey /\ kDecoded = NoKey /\ kPc = "idle"

FirstIdle == KeyIdle /\ OrderIdle /\ DataSourceIdle /\ SortIdle /\ RenderIdle

\* Every part but one is idle.
ExceptAttachIdle == FirstIdle /\ EmitterIdle /\ PickIdle /\ BuilderIdle /\ WillIdle /\ WalkIdle

ExceptEmitterIdle == FirstIdle /\ AttachIdle /\ PickIdle /\ BuilderIdle /\ WillIdle /\ WalkIdle

ExceptPickIdle == FirstIdle /\ AttachIdle /\ EmitterIdle /\ BuilderIdle /\ WillIdle /\ WalkIdle

ExceptBuilderIdle == FirstIdle /\ AttachIdle /\ EmitterIdle /\ PickIdle /\ WillIdle /\ WalkIdle

ExceptWillIdle == FirstIdle /\ AttachIdle /\ EmitterIdle /\ PickIdle /\ BuilderIdle /\ WalkIdle

ExceptWalkIdle == FirstIdle /\ AttachIdle /\ EmitterIdle /\ PickIdle /\ BuilderIdle /\ WillIdle

\* The n low bits of column and row interleaved: column bit i at bit 2i, row
\* bit i at bit 2i + 1.
RECURSIVE Interleave(_, _, _)
Interleave(column, row, n) ==
    IF n = 0 THEN 0
    ELSE (column % 2) + 2 * (row % 2)
         + 4 * Interleave(column \div 2, row \div 2, n - 1)

\* TileKey.mortonCode(): the interleaved bits of column and row below a tag bit
\* at position 2 * level.
mortonCode(tk) ==
    [k \in 1..NumLimbs |->
        Interleave((tk.column \div 2^(8 * (k - 1))) % 256,
                   (tk.row \div 2^(8 * (k - 1))) % 256, 8)
        + (IF (2 * tk.level) \div 16 = k - 1 THEN 2^((2 * tk.level) % 16) ELSE 0)]

\* Position, inside the top limb, of the lowest bit of the offset field.
FieldShift(bitshift) == (KeyBits - bitshift) - 16 * (NumLimbs - 1)

\* A mutant of getShiftedOffset: the offset clamped into the representable
\* range instead of wrapped.
getShiftedOffsetClamped(offset, bitshift) ==
    LET half == 2^(bitshift - 1)
        offsetIn == Max(0, Min(2^bitshift - 1, offset + half))
    IN  [k \in 1..NumLimbs |->
            IF k = NumLimbs THEN offsetIn * 2^FieldShift(bitshift) ELSE 0]

\* A mutant of getShiftedOffset: the offset stored without the half-range bias.
getShiftedOffsetNoBias(offset, bitshift) ==
    LET offsetIn == offset % 2^bitshift
    IN  [k \in 1..NumLimbs |->
            IF k = NumLimbs THEN offsetIn * 2^FieldShift(bitshift) ELSE 0]

\* The offset, biased by half of the 2^bitshift offsets and wrapped into
\* 0 .. 2^bitshift - 1, placed in the highest bitshift bits of the key.
getShiftedOffset(offset, bitshift) ==
    LET half == 2^(bitshift - 1)
        offsetIn == (offset + half) % 2^bitshift
    IN  [k \in 1..NumLimbs |->
            IF k = NumLimbs THEN offsetIn * 2^FieldShift(bitshift) ELSE 0]

\* A JavaScript number at or above 2^53 (and below 2^54) holds even integers
\* only: the sum is rounded to the nearest even integer, ties to the one whose
\* half is even.
RoundToDouble(n) ==
    IF n[NumLimbs] < 2^(KeyBits - 16 * (NumLimbs - 1)) \/ n[1] % 2 = 0 THEN n
    ELSE IF n[1] % 4 = 1 THEN [n EXCEPT ![1] = n[1] - 1]
    ELSE AddLimbs(n, [k \in 1..NumLimbs |-> IF k = 1 THEN 1 ELSE 0])

\* A key with the biased offset added at the low end of the morton code.
getKeyForTileKeyAndOffsetLow(tileKey, offset, bitshift) ==
    RoundToDouble(AddLimbs(mortonCode(tileKey),
        [k \in 1..NumLimbs |->
            IF k = 1 THEN (offset + 2^(bitshift - 1)) % 2^bitshift ELSE 0]))

getKeyForTileKeyAndOffset(tileKey, offset, bitshift) ==
    RoundToDouble(AddLimbs(mortonCode(tileKey), getShiftedOffset(offset, bitshift)))

\* The top bitshift bits of the key re-read as the biased offset, the rest as
\* the morton code.
extractOffsetAndMortonKeyFromKey(key, bitshift) ==
    LET field == Min(key[NumLimbs] \div 2^FieldShift(bitshift), 2^bitshift - 1)
    IN  [offset |-> field - 2^(bitshift - 1),
         mortonCode |->
            [key EXCEPT ![NumLimbs] = key[NumLimbs] - field * 2^FieldShift(bitshift)]]

KeyInit ==
    /\ kTile \in TileKeys
    /\ kOffset \in Offsets
    /\ kBitshift \in Bitshifts
    /\ kKey = NoKey
    /\ kDecoded = NoKey
    /\ kPc = "input"
    /\ OrderIdle /\ DataSourceIdle /\ SortIdle /\ RenderIdle /\ MoreIdle

\* const key = TileOffsetUtils.getKeyForTileKeyAndOffset(tileKey, offset, bitshift)
EncodeKey ==
    /\ kPc = "input"
    /\ kKey' = getKeyForTileKeyAndOffset(kTile, kOffset, kBitshift)
    /\ kPc' = "encoded"
    /\ UNCHANGED <<kTile, kOffset, kBitshift, kDecoded, orderVars, dsVars, sortVars, renderVars, moreVars>>

\* TileOffsetUtils.extractOffsetAndMortonKeyFromKey(key, bitshift)
DecodeKeySameBitshift ==
    /\ kPc = "encoded"
    /\ kDecoded' = extractOffsetAndMortonKeyFromKey(kKey, kBitshift)
    /\ kPc' = "decodedSame"
    /\ UNCHANGED <<kTile, kOffset, kBitshift, kKey, orderVars, dsVars, sortVars, renderVars, moreVars>>

\* TileOffsetUtils.extractOffsetAndMortonKeyFromKey(key)
DecodeKeyDefaultBitshift ==
    /\ kPc = "encoded"
    /\ kDecoded' = extractOffsetAndMortonKeyFromKey(kKey, DefaultBitshift)
    /\ kPc' = "decodedDefault"
    /\ UNCHANGED <<kTile, kOffset, kBitshift, kKey, orderVars, dsVars, sortVars, renderVars, moreVars>>

KeyNext == EncodeKey \/ DecodeKeySameBitshift \/ DecodeKeyDefaultBitshift

SpecKey == KeyInit /\ [][KeyNext]_vars

-----------------------------------------------------------------------------
(* Claims about TileOffsetUtils *)

\* The offset the codec stands for: o wrapped into -2^(b-1) .. 2^(b-1) - 1.
WrappedOffset(o, b) == ((o + 2^(b - 1)) % 2^b) - 2^(b - 1)

\* The morton code lies below the offset field of a key built with bitshift b.
MortonFits(tk, b) == mortonCode(tk)[NumLimbs] < 2^FieldShift(b)

RoundTrips ==
    /\ kDecoded.offset = WrappedOffset(kOffset, kBitshift)
    /\ kDecoded.mortonCode = mortonCode(kTile)

IsKey(key) ==
    /\ DOMAIN key = 1..NumLimbs
    /\ \A k \in 1..NumLimbs : key[k] \in 0..(Limb - 1)

\* C2: getKeyForTileKeyAndOffset returns a key for every offset, also outside
\* -2^(b-1) .. 2^(b-1) - 1, and offsets congruent modulo 2^b give the same key
\* for the same tile key.
C2_OffsetsWrap ==
    kPc = "encoded" =>
        /\ IsKey(kKey)
        /\ \A o \in Offsets :
              (o - kOffset) % 2^kBitshift = 0 =>
                  getKeyForTileKeyAndOffset(kTile, o, kBitshift) = kKey

\* C2's case: offset -5, outside -4 .. 3 of bitshift 3, was encoded and its
\* key is the key of offset 3.
C2_Witness ==
    /\ kPc = "encoded"
    /\ kBitshift = 3 /\ kOffset = 0 - 5
    /\ kKey = getKeyForTileKeyAndOffset(kTile, 3, 3)
    /\ kKey # getKeyForTileKeyAndOffset(kTile, 0 - 4, 3)

-----------------------------------------------------------------------------
(* TextElementBuilder.composeRenderOrder *)

\* Bound of the small render orders checked beside the 32-bit extremes.
MaxSmallOrder == 2

\* A render order of the 32-bit range as two digits <<low, high>>.
Int32(n) == <<n % Limb, n \div Limb>>

RenderOrders ==
    {Int32(n) : n \in (0 - MaxSmallOrder)..MaxSmallOrder}
    \cup {<<Limb - 1, Limb - 1>>,      \*  0xffffffff
          <<Limb - 2, Limb - 1>>,      \*  0xfffffffe
          <<1, 0 - Limb>>,             \* -0xffffffff
          <<2, 0 - Limb>>}             \* -0xfffffffe

Widen(n) == Normalize(<<n[1], n[2], 0, 0>>)

\* A mutant of composeRenderOrder: the technique order taken as an unsigned
\* 32-bit value (techniqueRenderOrder >>> 0).
composeRenderOrderUnsigned(baseRenderOrder, techniqueRenderOrder) ==
    Normalize(<<techniqueRenderOrder[1], techniqueRenderOrder[2] % Limb,
                baseRenderOrder[1], baseRenderOrder[2]>>)

\* A mutant of composeRenderOrder: the base shifted by 16 bits only.
composeRenderOrderShift16(baseRenderOrder, techniqueRenderOrder) ==
    Normalize(<<techniqueRenderOrder[1],
                techniqueRenderOrder[2] + baseRenderOrder[1],
                baseRenderOrder[2], 0>>)

\* The base in the high 32 bits of the key, the technique's render order added
\* below it: baseRenderOrder * 2^32 + techniqueRenderOrder, as a bigint.
composeRenderOrder(baseRenderOrder, techniqueRenderOrder) ==
    Normalize(<<techniqueRenderOrder[1], techniqueRenderOrder[2],
                baseRenderOrder[1], baseRenderOrder[2]>>)

OrderInit ==
    /\ oBase1 \in RenderOrders /\ oTech1 \in RenderOrders
    /\ oBase2 \in RenderOrders /\ oTech2 \in RenderOrders
    /\ oKey1 = NoKey /\ oKey2 = NoKey
    /\ oPc = "input"
    /\ KeyIdle /\ DataSourceIdle /\ SortIdle /\ RenderIdle /\ MoreIdle

\* TextElementBuilder.composeRenderOrder(base1, tech1) and (base2, tech2)
ComposeBoth ==
    /\ oPc = "input"
    /\ oKey1' = composeRenderOrder(oBase1, oTech1)
    /\ oKey2' = composeRenderOrder(oBase2, oTech2)
    /\ oPc' = "composed"
    /\ UNCHANGED <<oBase1, oTech1, oBase2, oTech2, keyVars, dsVars, sortVars, renderVars, moreVars>>

OrderNext == ComposeBoth

SpecOrder == OrderInit /\ [][OrderNext]_vars

\* t1 - t2 < 2^32
DiffBelowShift(t1, t2) ==
    Less(Widen(t1), AddLimbs(Widen(t2), <<0, 0, 1, 0>>))

\* C3: for a fixed base, t1 < t2 (both in -0xffffffff .. 0xffffffff) gives
\* composeRenderOrder(b, t1) < composeRenderOrder(b, t2).
C3_MonotonicInTechnique ==
    oPc = "composed" /\ oBase1 = oBase2 /\ Less(Widen(oTech1), Widen(oTech2))
        => Less(oKey1, oKey2)

\* C3's case: two negative technique orders at the 32-bit extreme under the
\* same negative base were composed.
C3_Witness ==
    /\ oPc = "composed"
    /\ oBase1 = oBase2 /\ oBase1 = <<1, 0 - Limb>>
    /\ oTech1 = <<1, 0 - Limb>> /\ oTech2 = <<2, 0 - Limb>>
    /\ Less(oKey1, oKey2)

-----------------------------------------------------------------------------
(* DataSource: feature state *)

\* Bounds: the feature ids used, and the calls of one checked history.
MaxFeatureId == 2
MaxCalls == 3

FeatureIds == 1..MaxFeatureId

\* A ValueMap is an open attribute map; the attribute the styles here read is
\* "enabled".
ValueMaps == [{"enabled"} -> BOOLEAN] \cup {[n \in {} |-> TRUE]}

\* new Map<number, ValueMap>()
EmptyMap == [id \in {} |-> None]

\* Map.get
getFeatureState(map, featureId) ==
    IF featureId \in DOMAIN map THEN Some(map[featureId]) ELSE None

\* Map.clear
clearFeatureState(map) == EmptyMap

\* Map.set
setFeatureState(map, featureId, state) ==
    [id \in DOMAIN map \cup {featureId} |->
        IF id = featureId THEN state ELSE map[id]]

\* A mutant of removeFeatureState: every entry is dropped, not only featureId's.
removeFeatureStateAll(map, featureId) == EmptyMap

\* Map.delete
removeFeatureState(map, featureId) ==
    [id \in DOMAIN map \ {featureId} |-> map[id]]

DataSourceInit ==
    /\ m_featureStateMap = EmptyMap
    /\ dsCalls = <<>>
    /\ KeyIdle /\ OrderIdle /\ SortIdle /\ RenderIdle /\ MoreIdle

\* dataSource.setFeatureState(featureId, state)
CallSetFeatureState(featureId, state) ==
    /\ Len(dsCalls) < MaxCalls
    /\ m_featureStateMap' = setFeatureState(m_featureStateMap, featureId, state)
    /\ dsCalls' = Append(dsCalls, [op |-> "set", id |-> featureId, state |-> state])
    /\ UNCHANGED <<keyVars, orderVars, sortVars, renderVars, moreVars>>

\* dataSource.removeFeatureState(featureId)
CallRemoveFeatureState(featureId) ==
    /\ Len(dsCalls) < MaxCalls
    /\ m_featureStateMap' = removeFeatureState(m_featureStateMap, featureId)
    /\ dsCalls' = Append(dsCalls, [op |-> "remove", id |-> featureId])
    /\ UNCHANGED <<keyVars, orderVars, sortVars, renderVars, moreVars>>

\* dataSource.clearFeatureState()
CallClearFeatureState ==
    /\ Len(dsCalls) < MaxCalls
    /\ m_featureStateMap' = clearFeatureState(m_featureStateMap)
    /\ dsCalls' = Append(dsCalls, [op |-> "clear"])
    /\ UNCHANGED <<keyVars, orderVars, sortVars, renderVars, moreVars>>

DataSourceNext ==
    \/ \E id \in FeatureIds, state \in ValueMaps : CallSetFeatureState(id, state)
    \/ \E id \in FeatureIds : CallRemoveFeatureState(id)
    \/ CallClearFeatureState

SpecDataSource == DataSourceInit /\ [][DataSourceNext]_vars

\* What the calls calls[1..i] leave as the state of featureId: the state of the
\* last setFeatureState(featureId, _) unless a removeFeatureState(featureId) or
\* a clearFeatureState() came after it.
RECURSIVE StateAfter(_, _, _)
StateAfter(calls, featureId, i) ==
    IF i = 0 THEN None
    ELSE IF calls[i].op = "clear" THEN None
    ELSE IF calls[i].id # featureId THEN StateAfter(calls, featureId, i - 1)
    ELSE IF calls[i].op = "set" THEN Some(calls[i].state)
    ELSE None

\* C10: after any sequence of setFeatureState, removeFeatureState and
\* clearFeatureState calls, getFeatureState(id) is the state of the most recent
\* setFeatureState(id, state) not followed by removeFeatureState(id) or
\* clearFeatureState(), and undefined otherwise; calls on one id leave the
\* other ids' states alone.
C10_FeatureStateIsLastSet ==
    \A id \in FeatureIds :
        getFeatureState(m_featureStateMap, id) = StateAfter(dsCalls, id, Len(dsCalls))

\* C10's case: a state was set for two ids, then one was removed; the other
\* id still has its state.
C10_Witness ==
    /\ Len(dsCalls) = 3
    /\ dsCalls[1].op = "set" /\ dsCalls[2].op = "set" /\ dsCalls[3].op = "remove"
    /\ dsCalls[1].id # dsCalls[2].id /\ dsCalls[3].id = dsCalls[1].id
    /\ getFeatureState(m_featureStateMap, dsCalls[1].id) = None
    /\ getFeatureState(m_featureStateMap, dsCalls[2].id) = Some(dsCalls[2].state)

-----------------------------------------------------------------------------
(* TileObjectRenderer.setupRenderer: the opaque sort *)

\* BackgroundDataSource.GROUND_RENDER_ORDER, the lowest render order there is
\* (Number.MIN_SAFE_INTEGER), kept small enough to subtract.
GROUND_RENDER_ORDER == -1000

Sign(n) == IF n < 0 THEN 0 - 1 ELSE IF n > 0 THEN 1 ELSE 0

\* A RenderItem with what the comparators read of its object: userData.tileKey
\* (its morton code) and the MapObjectAdapter's dataSource.dataSourceOrder,
\* level and kind, each of them optional. program stands for the program
\* object, told apart by its id.
SortAdapters ==
    {[level |-> None, kind |-> None],
     [level |-> Some(1), kind |-> Some(<<>>)],
     [level |-> Some(2), kind |-> Some(<<"road">>)],
     [level |-> Some(1), kind |-> Some(<<"road", "building">>)]}

SortIds == {1, 2}

RenderItems ==
    {[groupOrder |-> g, renderOrder |-> r, tileKey |-> t,
      program |-> n, material |-> n, z |-> 0, id |-> n,
      dataSourceOrder |-> d, level |-> ad.level, kind |-> ad.kind] :
        g \in {0, 1}, r \in {GROUND_RENDER_ORDER, 0, 1},
        t \in {None, Some(5), Some(7)},
        n \in SortIds, d \in {None, Some(0), Some(1)}, ad \in SortAdapters}

\* A mutant of stableSort: three.js' own order, the program id compared before
\* the tile key.
stableSortIdsFirst(a, b) ==
    IF a.groupOrder # b.groupOrder THEN a.groupOrder - b.groupOrder
    ELSE IF a.renderOrder # b.renderOrder THEN a.renderOrder - b.renderOrder
    ELSE IF a.program # b.program THEN a.program - b.program
    ELSE IF a.material # b.material THEN a.material - b.material
    ELSE IF a.tileKey # None /\ b.tileKey # None /\ Get(a.tileKey) # Get(b.tileKey)
        THEN Get(a.tileKey) - Get(b.tileKey)
    ELSE IF a.z # b.z THEN a.z - b.z
    ELSE a.id - b.id

stableSort(a, b) ==
    IF a.groupOrder # b.groupOrder THEN a.groupOrder - b.groupOrder
    ELSE IF a.renderOrder # b.renderOrder THEN a.renderOrder - b.renderOrder
    ELSE IF a.tileKey # None /\ b.tileKey # None /\ Get(a.tileKey) # Get(b.tileKey)
        THEN Get(a.tileKey) - Get(b.tileKey)
    ELSE IF a.program # b.program THEN a.program - b.program
    ELSE IF a.material # b.material THEN a.material - b.material
    ELSE IF a.z # b.z THEN a.z - b.z
    ELSE a.id - b.id

\* kind?.find(s => s === "building") !== undefined
IsBuilding(kind) ==
    kind # None /\ \E i \in 1..Len(Get(kind)) : Get(kind)[i] = "building"

BothDefinedAndDiffer(x, y) == x # None /\ y # None /\ Get(x) # Get(y)

\* A mutant of painterSortStable: the background's ground check made before
\* the data source orders are compared.
painterSortStableGroundFirst(a, b) ==
    IF a.renderOrder = GROUND_RENDER_ORDER \/ b.renderOrder = GROUND_RENDER_ORDER
        THEN stableSort(a, b)
    ELSE IF BothDefinedAndDiffer(a.dataSourceOrder, b.dataSourceOrder)
        THEN Get(a.dataSourceOrder) - Get(b.dataSourceOrder)
    ELSE IF a.level # None /\ b.level # None
        THEN IF Get(a.level) = Get(b.level) \/ IsBuilding(a.kind) \/ IsBuilding(b.kind)
                THEN stableSort(a, b)
             ELSE Get(a.level) - Get(b.level)
    ELSE stableSort(a, b)

painterSortStable(a, b) ==
    IF BothDefinedAndDiffer(a.dataSourceOrder, b.dataSourceOrder)
        THEN Get(a.dataSourceOrder) - Get(b.dataSourceOrder)
    ELSE IF a.renderOrder = GROUND_RENDER_ORDER \/ b.renderOrder = GROUND_RENDER_ORDER
        THEN stableSort(a, b)
    ELSE IF a.level # None /\ b.level # None
        THEN IF Get(a.level) = Get(b.level) \/ IsBuilding(a.kind) \/ IsBuilding(b.kind)
                THEN stableSort(a, b)
             ELSE Get(a.level) - Get(b.level)
    ELSE stableSort(a, b)

SortInit ==
    /\ sA \in RenderItems /\ sB \in RenderItems
    /\ sA.id # sB.id
    /\ sAB = 0 /\ sBA = 0
    /\ sPc = "list"
    /\ KeyIdle /\ OrderIdle /\ DataSourceIdle /\ RenderIdle /\ MoreIdle

\* The renderer's sort of the opaque list calling the installed comparator on
\* the two items, either way round.
CompareItems ==
    /\ sPc = "list"
    /\ sAB' = painterSortStable(sA, sB)
    /\ sBA' = painterSortStable(sB, sA)
    /\ sPc' = "compared"
    /\ UNCHANGED <<sA, sB, keyVars, orderVars, dsVars, renderVars, moreVars>>

SortNext == CompareItems

SpecSort == SortInit /\ [][SortNext]_vars

\* The item with other program, material and object ids.
WithIds(item, ids) ==
    [item EXCEPT !.program = ids.program, !.material = ids.material, !.id = ids.id]

IdAssignments == [program : SortIds, material : SortIds, id : SortIds]

SameOrdersOtherTiles ==
    /\ sA.groupOrder = sB.groupOrder
    /\ sA.renderOrder = sB.renderOrder
    /\ BothDefinedAndDiffer(sA.tileKey, sB.tileKey)

MortonSign == Sign(Get(sA.tileKey) - Get(sB.tileKey))

\* painterSortStable orders the two items itself, before stableSort is asked:
\* by differing data source orders, or by differing levels of two items off the
\* ground render order of which none is a building.
DecidedBeforeStableSort ==
    \/ BothDefinedAndDiffer(sA.dataSourceOrder, sB.dataSourceOrder)
    \/ /\ sA.renderOrder # GROUND_RENDER_ORDER /\ sB.renderOrder # GROUND_RENDER_ORDER
       /\ BothDefinedAndDiffer(sA.level, sB.level)
       /\ ~IsBuilding(sA.kind) /\ ~IsBuilding(sB.kind)

IdsDoNotMatter ==
    \A ia, ib \in IdAssignments :
        Sign(painterSortStable(WithIds(sA, ia), WithIds(sB, ib))) = Sign(sAB)

\* C7 as stated: in the installed comparator, two items of equal group order
\* and render order whose tile keys have different morton codes compare with
\* the sign of the morton-code difference, whatever their program, material
\* and object ids.
C7_MortonDecidesAlways ==
    sPc = "compared" /\ SameOrdersOtherTiles =>
        /\ Sign(sAB) = MortonSign
        /\ IdsDoNotMatter

\* C7 as amended: for two such items the result is the same for every
\* assignment of program, material and object ids, and it has the sign of the
\* morton-code difference unless painterSortStable has ordered the two by
\* data source order or by level before stableSort is asked.
C7_MortonBeforeIds ==
    sPc = "compared" /\ SameOrdersOtherTiles =>
        /\ IdsDoNotMatter
        /\ ~DecidedBeforeStableSort => Sign(sAB) = MortonSign

\* C7's case: the item of the higher tile key has the lower ids, and the
\* comparator still puts it second.
C7_Witness ==
    /\ sPc = "compared" /\ SameOrdersOtherTiles /\ ~DecidedBeforeStableSort
    /\ Get(sA.tileKey) > Get(sB.tileKey)
    /\ sA.id < sB.id /\ sA.program < sB.program
    /\ sAB > 0

\* C8: when both data sources define dataSourceOrder and the values differ,
\* the item of the lower dataSourceOrder sorts first, whatever the items'
\* render order, level, kind, tile key, depth and ids.
C8_DataSourceOrderFirst ==
    sPc = "compared" /\ BothDefinedAndDiffer(sA.dataSourceOrder, sB.dataSourceOrder) =>
        /\ Sign(sAB) = Sign(Get(sA.dataSourceOrder) - Get(sB.dataSourceOrder))
        /\ Sign(sBA) = Sign(Get(sB.dataSourceOrder) - Get(sA.dataSourceOrder))

\* C8's case: the item of the lower data source order has the higher group
\* order, level, tile key and ids, the other one the ground render order.
C8_Witness ==
    /\ sPc = "compared"
    /\ sA.dataSourceOrder = Some(0) /\ sB.dataSourceOrder = Some(1)
    /\ sB.renderOrder = GROUND_RENDER_ORDER /\ sA.renderOrder > 0
    /\ sA.groupOrder > sB.groupOrder
    /\ sA.level = Some(2) /\ sB.level = Some(1)
    /\ sA.tileKey = Some(7) /\ sB.tileKey = Some(5)
    /\ sA.id > sB.id
    /\ sAB < 0

-----------------------------------------------------------------------------
(* TileObjectRenderer: the per-frame pass over a tile's objects *)

DEFAULT_STENCIL_VALUE == 1

\* tile.center and tile.computeWorldOffsetX() (x coordinates)
TileCenter == 8

WorldOffsetX == 16

TileFeatureIds == {1, 2}

\* technique.enabled: a constant, or an expression over the feature state
\* ($state): sets the feature apart when its state says enabled, or unless its
\* state says not enabled.
StaticEnabled(value) == [isExpr |-> FALSE, value |-> value, expr |-> ""]

ExprEnabled(expr) == [isExpr |-> TRUE, value |-> FALSE, expr |-> expr]

EnabledExprs == {"state.enabled", "state.enabled != false"}

\* Boolean(getPropertyValue(technique.enabled, env)), state the $state of env
\* (None when env has none, or holds null).
EvalEnabled(enabled, state) ==
    LET stateSays(value) ==
            /\ state # None
            /\ "enabled" \in DOMAIN Get(state)
            /\ Get(state)["enabled"] = value
    IN  IF ~enabled.isExpr THEN enabled.value
        ELSE IF enabled.expr = "state.enabled" THEN stateSays(TRUE)
        ELSE ~stateSays(FALSE)

\* geometry.getIndex()?.count ?? geometry.attributes.position.count
FinalIndex(geometry) ==
    IF geometry.indexCount # None THEN Get(geometry.indexCount)
    ELSE geometry.positionCount

\* The objInfos.forEach of processTileObjectFeatures from featureIndex on
\* (indices from 1); acc holds geometry.groups and endOfLastGroup.
RECURSIVE forEachFeature(_, _, _, _, _, _)
forEachFeature(enabledExpr, feature, finalIndex, map, featureIndex, acc) ==
    LET objInfos == Get(feature.objInfos)
        starts == Get(feature.starts)
    IN  IF featureIndex > Len(objInfos) THEN acc
        ELSE
            LET featureState == getFeatureState(map, objInfos[featureIndex])
                enabled == EvalEnabled(enabledExpr, featureState)
                start == IF featureIndex <= Len(starts) THEN starts[featureIndex] ELSE 0
                end == IF featureIndex + 1 <= Len(starts)
                          THEN starts[featureIndex + 1] ELSE finalIndex
                count == end - start
                groups ==
                    IF acc.endOfLastGroup = Some(start)
                        THEN [acc.groups EXCEPT ![Len(acc.groups)].count = @ + count]
                    ELSE Append(acc.groups, [start |-> start, count |-> count])
            IN  forEachFeature(enabledExpr, feature, finalIndex, map, featureIndex + 1,
                    IF ~enabled THEN acc
                    ELSE [groups |-> groups, endOfLastGroup |-> Some(start + count)])

\* A mutant of clearGroups: the groups of the last pass are kept.
clearGroupsNot(geometry) == geometry

\* geometry.clearGroups()
clearGroups(geometry) == [geometry EXCEPT !.groups = <<>>]

\* typeof value === "number", which NaN is too.
typeofNumber(value) == value.type = "number"

\* zoomLevel < value and zoomLevel >= value for a number: both false for NaN.
lessThan(zoomLevel, value) == ~value.nan /\ zoomLevel < value.num

\* The upper bound of the zoom range taken as part of the range.
notLessThanOrEqual(zoomLevel, value) == ~value.nan /\ zoomLevel > value.num

notLessThan(zoomLevel, value) == ~value.nan /\ zoomLevel >= value.num

\* A test for the features that looks at the feature data only.
isStaticWithoutFeature(feature, enabled) == feature = None

\* !feature || !Expr.isExpr(technique.enabled)
isStatic(feature, enabled) == feature = None \/ ~enabled.isExpr

\* The result, and the object with its geometry's groups rebuilt.
processTileObjectFeatures(object, zoom, map) ==
    LET technique == object.technique
        minZoomLevel == IF technique = None THEN JsUndefined ELSE Get(technique).minZoomLevel
        maxZoomLevel == IF technique = None THEN JsUndefined ELSE Get(technique).maxZoomLevel
        unchanged(result) == [result |-> result, object |-> object]
    IN  IF typeofNumber(minZoomLevel) /\ lessThan(zoom, minZoomLevel) THEN unchanged(FALSE)
        ELSE IF typeofNumber(maxZoomLevel) /\ notLessThan(zoom, maxZoomLevel)
            THEN unchanged(FALSE)
        ELSE IF technique = None \/ Get(technique).enabled = None THEN unchanged(TRUE)
        ELSE
            LET enabled == Get(Get(technique).enabled) IN
            IF isStatic(object.feature, enabled)
                THEN unchanged(EvalEnabled(enabled, None))
            ELSE IF Get(object.feature).objInfos = None \/ Get(object.feature).starts = None
                THEN unchanged(TRUE)
            ELSE IF object.geometry = None \/ ~Get(object.geometry).isBufferGeometry
                THEN unchanged(TRUE)
            ELSE
                LET geometry == clearGroups(Get(object.geometry))
                    pass == forEachFeature(enabled, Get(object.feature),
                                FinalIndex(geometry), map, 1,
                                [groups |-> geometry.groups, endOfLastGroup |-> None])
                IN  [result |-> Len(pass.groups) > 0,
                     object |-> [object EXCEPT
                        !.geometry = Some([geometry EXCEPT !.groups = pass.groups])]]

\* A mutant of processTileObject: object.visible is not looked at.
processTileObjectOfInvisible(object, zoom, map) ==
    LET features == processTileObjectFeatures(object, zoom, map) IN
    IF ~features.result THEN features
    ELSE IF /\ object.adapter # None
            /\ ~Get(object.adapter).visible
            /\ ~Get(object.adapter).pickabilityAll
        THEN [features EXCEPT !.result = FALSE]
    ELSE features

processTileObject(object, zoom, map) ==
    IF ~object.visible THEN [result |-> FALSE, object |-> object]
    ELSE
        LET features == processTileObjectFeatures(object, zoom, map) IN
        IF ~features.result THEN features
        ELSE IF /\ object.adapter # None
                /\ ~Get(object.adapter).visible
                /\ ~Get(object.adapter).pickabilityAll
            THEN [features EXCEPT !.result = FALSE]
        ELSE features

\* A mutant of allocateStencilValue: the counter is incremented before it
\* is read.
allocateStencilValuePreIncrement(stencil, renderOrder) ==
    [value |-> stencil.m_stencilValue + 1,
     m_stencilValue |-> stencil.m_stencilValue + 1,
     m_renderOrderStencilValues |->
        [r \in DOMAIN stencil.m_renderOrderStencilValues \cup {renderOrder} |->
            IF r = renderOrder THEN stencil.m_stencilValue + 1
            ELSE stencil.m_renderOrderStencilValues[r]]]

\* The value returned and the renderer's two fields after the call.
allocateStencilValue(stencil, renderOrder) ==
    [value |-> stencil.m_stencilValue,
     m_stencilValue |-> stencil.m_stencilValue + 1,
     m_renderOrderStencilValues |->
        [r \in DOMAIN stencil.m_renderOrderStencilValues \cup {renderOrder} |->
            IF r = renderOrder THEN stencil.m_stencilValue
            ELSE stencil.m_renderOrderStencilValues[r]]]

getStencilValue(stencil, renderOrder) ==
    IF renderOrder \in DOMAIN stencil.m_renderOrderStencilValues
        THEN [stencil EXCEPT !.value = stencil.m_renderOrderStencilValues[renderOrder]]
    ELSE allocateStencilValue(stencil, renderOrder)

\* updateStencilRef asks for a stencil value.
UsesStencil(object) == object.renderOrder # None /\ object.solidLineMesh

\* The loop of render from the i-th object on. pass holds the objects, the
\* renderer's stencil fields, the root node's children, and the history of
\* what the call did.
RECURSIVE renderObjects(_, _, _, _)
renderObjects(i, zoom, camera, pass) ==
    IF i > Len(pass.objects) THEN pass
    ELSE
        LET processed == processTileObject(pass.objects[i], zoom, pass.map)
            object == processed.object
            stencil == IF UsesStencil(object)
                          THEN getStencilValue(pass.stencil, Get(object.renderOrder))
                       ELSE pass.stencil
            position == TileCenter
                        + (IF object.displacement # None THEN Get(object.displacement) ELSE 0)
                        + WorldOffsetX - camera
            rendered == [object EXCEPT
                            !.stencilRef = IF UsesStencil(object) THEN stencil.value ELSE @,
                            !.position = position,
                            !.frustumCulled = FALSE]
        IN  renderObjects(i + 1, zoom, camera,
                IF ~processed.result
                    THEN [pass EXCEPT !.objects[i] = object]
                ELSE [pass EXCEPT
                        !.objects[i] = rendered,
                        !.stencil = stencil,
                        !.rootNode = @ \cup {i},
                        !.seen = IF UsesStencil(object)
                                    /\ \A k \in 1..Len(@) : @[k] # Get(object.renderOrder)
                                    THEN Append(@, Get(object.renderOrder)) ELSE @,
                        !.added = @ \cup {i},
                        !.positioned = @ \cup {i},
                        !.stencilled = IF UsesStencil(object) THEN @ \cup {i} ELSE @])

NoRender ==
    [called |-> FALSE, willRender |-> FALSE, zoomLevel |-> 0, added |-> {},
     positioned |-> {}, stencilled |-> {}, didRender |-> 0]

\* renderer.render(tile, storageLevel, zoomLevel, cameraPosition, rootNode),
\* willRender the answer of tile.willRender(storageLevel).
Render(willRender, zoomLevel, cameraPosition) ==
    LET start == [objects |-> objects, map |-> m_featureStateMap,
                  stencil |-> [value |-> 0, m_stencilValue |-> m_stencilValue,
                               m_renderOrderStencilValues |-> m_renderOrderStencilValues],
                  rootNode |-> rootNode, seen |-> seenRenderOrders,
                  added |-> {}, positioned |-> {}, stencilled |-> {}]
        pass == IF willRender THEN renderObjects(1, zoomLevel, cameraPosition, start)
                ELSE start
    IN  /\ objects # <<>>
        /\ objects' = pass.objects
        /\ m_stencilValue' = pass.stencil.m_stencilValue
        /\ m_renderOrderStencilValues' = pass.stencil.m_renderOrderStencilValues
        /\ rootNode' = pass.rootNode
        /\ seenRenderOrders' = pass.seen
        /\ stencilledInFrame' = stencilledInFrame \cup pass.stencilled
        /\ lastRender' = [called |-> TRUE, willRender |-> willRender,
                          zoomLevel |-> zoomLevel,
                          added |-> pass.added, positioned |-> pass.positioned,
                          stencilled |-> pass.stencilled,
                          didRender |-> IF willRender THEN 1 ELSE 0]
        /\ UNCHANGED <<keyVars, orderVars, dsVars, sortVars, moreVars>>

\* renderer.prepareRender()
PrepareRender ==
    /\ objects # <<>>
    /\ m_stencilValue' = DEFAULT_STENCIL_VALUE
    /\ m_renderOrderStencilValues' = <<>>
    /\ seenRenderOrders' = <<>>
    /\ stencilledInFrame' = {}
    /\ UNCHANGED <<objects, rootNode, lastRender, keyVars, orderVars, dsVars, sortVars, moreVars>>

\* tile.dataSource.setFeatureState / removeFeatureState / clearFeatureState
\* between two frames.
TileSetFeatureState(featureId, state) ==
    /\ objects # <<>>
    /\ m_featureStateMap' = setFeatureState(m_featureStateMap, featureId, state)
    /\ UNCHANGED <<dsCalls, keyVars, orderVars, sortVars, renderVars, moreVars>>

TileRemoveFeatureState(featureId) ==
    /\ objects # <<>>
    /\ m_featureStateMap' = removeFeatureState(m_featureStateMap, featureId)
    /\ UNCHANGED <<dsCalls, keyVars, orderVars, sortVars, renderVars, moreVars>>

TileClearFeatureState ==
    /\ objects # <<>>
    /\ m_featureStateMap' = clearFeatureState(m_featureStateMap)
    /\ UNCHANGED <<dsCalls, keyVars, orderVars, sortVars, renderVars, moreVars>>

\* An object of a tile before its first render.
TileObject(visible, renderOrder, isLine, technique, feature, geometry, adapter, move) ==
    [visible |-> visible, renderOrder |-> renderOrder, solidLineMesh |-> isLine,
     technique |-> technique, feature |-> feature, geometry |-> geometry,
     adapter |-> adapter, displacement |-> move,
     position |-> 0, stencilRef |-> 0, frustumCulled |-> TRUE]

Technique(minZoomLevel, maxZoomLevel, enabled) ==
    [minZoomLevel |-> minZoomLevel, maxZoomLevel |-> maxZoomLevel, enabled |-> enabled]

BufferGeometry(indexCount, positionCount) ==
    [isBufferGeometry |-> TRUE, indexCount |-> indexCount,
     positionCount |-> positionCount, groups |-> <<>>]

TileInit ==
    /\ m_stencilValue = DEFAULT_STENCIL_VALUE
    /\ m_renderOrderStencilValues = <<>>
    /\ rootNode = {}
    /\ seenRenderOrders = <<>>
    /\ stencilledInFrame = {}
    /\ lastRender = NoRender
    /\ dsCalls = <<>>
    /\ KeyIdle /\ OrderIdle /\ SortIdle /\ MoreIdle

-----------------------------------------------------------------------------
(* A tile of one object with per-feature data *)

MaxFeatures == 3

StartValues == {0, 2, 4}

\* featureStarts: where each feature starts in the index buffer, in order.
FeatureStarts(n) ==
    {starts \in [1..n -> StartValues] :
        \A i \in 1..(n - 1) : starts[i] <= starts[i + 1]}

\* A technique with an `enabled` expression and the geometry it styles: an
\* indexed geometry of 4 indices, or one without index of 6 vertices.
FeatureStyles ==
    {[enabled |-> ExprEnabled("state.enabled"), geometry |-> BufferGeometry(Some(4), 9)],
     [enabled |-> ExprEnabled("state.enabled != false"),
      geometry |-> BufferGeometry(None, 6)]}

FeatureObjects ==
    UNION {
        {TileObject(TRUE, Some(0), TRUE,
                    Some(Technique(JsUndefined, JsUndefined, Some(style.enabled))),
                    Some([starts |-> Some(starts), objInfos |-> Some(objInfos)]),
                    Some(style.geometry), None, None) :
            style \in FeatureStyles, starts \in FeatureStarts(n),
            objInfos \in [1..n -> TileFeatureIds]} :
        n \in 1..MaxFeatures}

FeaturesInit ==
    /\ objects \in {<<object>> : object \in FeatureObjects}
    /\ m_featureStateMap = EmptyMap
    /\ TileInit

FeaturesNext ==
    \/ \E willRender \in BOOLEAN : Render(willRender, 2, 1)
    \/ \E featureId \in TileFeatureIds, state \in ValueMaps :
            TileSetFeatureState(featureId, state)
    \/ \E featureId \in TileFeatureIds : TileRemoveFeatureState(featureId)
    \/ TileClearFeatureState

SpecFeatures == FeaturesInit /\ [][FeaturesNext]_vars

\* What the claims say of the features of an object, stated from the object's
\* feature data and the feature states alone.
FeatureCount(object) == Len(Get(Get(object.feature).objInfos))

FeatureStart(object, i) == Get(Get(object.feature).starts)[i]

FeatureEnd(object, i) ==
    IF i < FeatureCount(object) THEN FeatureStart(object, i + 1)
    ELSE FinalIndex(Get(object.geometry))

FeatureEnabled(object, map, i) ==
    LET id == Get(Get(object.feature).objInfos)[i]
        says(value) ==
            /\ id \in DOMAIN map
            /\ "enabled" \in DOMAIN map[id]
            /\ map[id]["enabled"] = value
    IN  IF Get(Get(object.technique).enabled).expr = "state.enabled" THEN says(TRUE)
        ELSE ~says(FALSE)

EnabledFeatures(object, map) ==
    {i \in 1..FeatureCount(object) : FeatureEnabled(object, map, i)}

\* The enabled features that start a run: the enabled feature before them, if
\* any, does not end where they start.
RunHeads(object, map) ==
    LET enabled == EnabledFeatures(object, map) IN
    {i \in enabled :
        \A p \in enabled :
            (p < i /\ \A q \in enabled : ~(p < q /\ q < i)) =>
                FeatureEnd(object, p) # FeatureStart(object, i)}

\* The last feature of the run that starts with head.
RunLast(object, map, head) ==
    CHOOSE j \in EnabledFeatures(object, map) :
        /\ head <= j
        /\ \A h \in RunHeads(object, map) : ~(head < h /\ h <= j)
        /\ \A k \in EnabledFeatures(object, map) :
                k > j => \E h \in RunHeads(object, map) : head < h /\ h <= k

GroupsAreEnabledRuns(object, map, added) ==
    LET groups == Get(object.geometry).groups
        heads == RunHeads(object, map)
    IN  /\ Len(groups) = Cardinality(heads)
        /\ \A h \in heads :
                groups[Cardinality({x \in heads : x <= h})] =
                    [start |-> FeatureStart(object, h),
                     count |-> FeatureEnd(object, RunLast(object, map, h))
                                    - FeatureStart(object, h)]
        /\ \A k \in 1..(Len(groups) - 1) :
                groups[k].start + groups[k].count <= groups[k + 1].start
        /\ \A i \in (1..FeatureCount(object)) \ EnabledFeatures(object, map) :
                \A k \in 1..Len(groups) :
                    \A x \in FeatureStart(object, i)..(FeatureEnd(object, i) - 1) :
                        ~(groups[k].start <= x /\ x < groups[k].start + groups[k].count)
        /\ (1 \in added) <=> (EnabledFeatures(object, map) # {})

\* A step of render with willRender true and the feature states it has read.
RendersTile ==
    /\ m_featureStateMap' = m_featureStateMap
    /\ rootNode' = rootNode \cup lastRender'.added
    /\ lastRender'.willRender

\* C5: for a geometry of N features with nondecreasing featureStarts and an
\* `enabled` expression over $state, a render leaves the geometry with exactly
\* one group per maximal run of index-adjacent enabled features, from the
\* run's first start to its last end, in increasing order; no group overlaps a
\* disabled feature's index range; and the object is added to the scene exactly
\* when some feature is enabled.
C5_GroupsOfEnabledFeatures ==
    [][RendersTile =>
        GroupsAreEnabledRuns(objects'[1], m_featureStateMap', lastRender'.added)]_vars

\* C5's case: of three features the first two are enabled and merged into one
\* group, the third is disabled and left out.
C5_Witness ==
    /\ lastRender # <<>> /\ lastRender.willRender /\ lastRender.added = {1}
    /\ Len(objects) = 1 /\ objects[1].feature # None
    /\ Get(Get(objects[1].feature).starts) = <<0, 2, 4>>
    /\ EnabledFeatures(objects[1], m_featureStateMap) = {1, 2}
    /\ Get(objects[1].geometry).groups = <<[start |-> 0, count |-> 4]>>

-----------------------------------------------------------------------------
(* A tile of three objects, rendered over several frames *)

ZoomLevels == {1, 2, 3}

CameraPositions == {1, 2}

PlainObject(renderOrder, solidLineMesh) ==
    TileObject(TRUE, renderOrder, solidLineMesh, None, None, None, None, None)

\* The styles of the tile's second object: no technique; a zoom range; a
\* constant `enabled`; an `enabled` expression without feature data, with the
\* data of one feature, and with feature data that lacks the starts.
ObjectStyles ==
    {[technique |-> None, feature |-> None, geometry |-> None],
     [technique |-> Some(Technique(JsNumber(2), JsNumber(3), None)),
      feature |-> None, geometry |-> None],
     [technique |-> Some(Technique(JsUndefined, JsUndefined, Some(StaticEnabled(TRUE)))),
      feature |-> None, geometry |-> None],
     [technique |-> Some(Technique(JsUndefined, JsUndefined, Some(StaticEnabled(FALSE)))),
      feature |-> None, geometry |-> None],
     [technique |-> Some(Technique(JsUndefined, JsUndefined, Some(ExprEnabled("state.enabled")))),
      feature |-> None, geometry |-> None],
     [technique |-> Some(Technique(JsUndefined, JsUndefined, Some(ExprEnabled("state.enabled")))),
      feature |-> Some([starts |-> Some(<<0>>), objInfos |-> Some(<<1>>)]),
      geometry |-> Some(BufferGeometry(None, 3))],
     [technique |-> Some(Technique(JsUndefined, JsUndefined, Some(ExprEnabled("state.enabled")))),
      feature |-> Some([starts |-> None, objInfos |-> Some(<<1>>)]),
      geometry |-> Some(BufferGeometry(None, 3))]}

ObjectAdapters ==
    {None,
     Some([visible |-> TRUE, pickabilityAll |-> FALSE]),
     Some([visible |-> FALSE, pickabilityAll |-> FALSE]),
     Some([visible |-> FALSE, pickabilityAll |-> TRUE])}

\* The tile's first and third object.
PlainPairs ==
    {<<PlainObject(Some(0), TRUE), PlainObject(Some(1), TRUE)>>,
     <<PlainObject(Some(2), TRUE), PlainObject(None, TRUE)>>,
     <<PlainObject(Some(0), FALSE), PlainObject(Some(0), TRUE)>>}

RenderTiles ==
    {<<pair[1],
       TileObject(visible, Some(2), TRUE, style.technique, style.feature,
                  style.geometry, adapter, Some(4)),
       pair[2]>> :
        pair \in PlainPairs, visible \in BOOLEAN, style \in ObjectStyles,
        adapter \in ObjectAdapters}

\* The feature states of the tile's data source while it is rendered.
RenderFeatureStates ==
    {EmptyMap} \cup {setFeatureState(EmptyMap, 1, state) : state \in ValueMaps}

RenderInit ==
    /\ objects \in RenderTiles
    /\ m_featureStateMap \in RenderFeatureStates
    /\ TileInit

RenderNext ==
    \/ \E willRender \in BOOLEAN, zoomLevel \in ZoomLevels,
          cameraPosition \in CameraPositions :
            Render(willRender, zoomLevel, cameraPosition)
    \/ PrepareRender

SpecRender == RenderInit /\ [][RenderNext]_vars

\* The place of a render order among those seen in the frame.
PlaceSeen(renderOrder) ==
    CHOOSE k \in 1..Len(seenRenderOrders) : seenRenderOrders[k] = renderOrder

\* C6: within a frame the k-th distinct render order handed to the stencil
\* allocation has stencil value k, counting from 1: the renderer's map holds
\* exactly these pairs, every object given a stencil reference in the frame
\* has the value of its render order's place, so equal render orders share a
\* value, different ones never do and 0 is never assigned; after
\* prepareRender nothing is seen and the map is empty again.
C6_StencilValueIsPlaceSeen ==
    /\ DOMAIN m_renderOrderStencilValues =
            {seenRenderOrders[k] : k \in 1..Len(seenRenderOrders)}
    /\ \A k \in 1..Len(seenRenderOrders) :
            m_renderOrderStencilValues[seenRenderOrders[k]] = k
    /\ m_stencilValue = Len(seenRenderOrders) + 1
    /\ \A i \in stencilledInFrame :
            /\ objects[i].stencilRef = PlaceSeen(Get(objects[i].renderOrder))
            /\ objects[i].stencilRef # 0
    /\ \A i, j \in stencilledInFrame :
            (objects[i].renderOrder = objects[j].renderOrder)
                <=> (objects[i].stencilRef = objects[j].stencilRef)

\* C6's case: the second object's render order 2 is seen after the render
\* orders 0 and 1 of the first and third object, in a later render call of
\* the frame, and gets the value 3.
C6_Witness ==
    /\ seenRenderOrders = <<0, 1, 2>>
    /\ stencilledInFrame = {1, 2, 3}
    /\ objects[2].renderOrder = Some(2) /\ objects[2].stencilRef = 3
    /\ objects[1].stencilRef = 1 /\ objects[3].stencilRef = 2
    /\ m_stencilValue = 4

OutOfZoomRange(object, zoom) ==
    /\ object.technique # None
    /\ \/ /\ Get(object.technique).minZoomLevel.type = "number"
          /\ ~Get(object.technique).minZoomLevel.nan
          /\ zoom < Get(object.technique).minZoomLevel.num
       \/ /\ Get(object.technique).maxZoomLevel.type = "number"
          /\ ~Get(object.technique).maxZoomLevel.nan
          /\ zoom >= Get(object.technique).maxZoomLevel.num

\* The technique's `enabled` is false, or an expression that is false: for
\* the object, when it has no feature data, or else for each of its features.
DisabledByTechnique(object, map) ==
    /\ object.technique # None
    /\ Get(object.technique).enabled # None
    /\ LET enabled == Get(Get(object.technique).enabled) IN
        IF ~enabled.isExpr THEN ~enabled.value
        ELSE IF object.feature = None THEN enabled.expr = "state.enabled"
        ELSE /\ Get(object.feature).objInfos # None
             /\ Get(object.feature).starts # None
             /\ object.geometry # None
             /\ Get(object.geometry).isBufferGeometry
             /\ EnabledFeatures(object, map) = {}

NotToRender(object, call, map) ==
    \/ ~call.willRender
    \/ ~object.visible
    \/ OutOfZoomRange(object, call.zoomLevel)
    \/ DisabledByTechnique(object, map)

\* C9: a render call leaves alone every object that is invisible, out of its
\* technique's zoom range, disabled by its technique, or of a tile whose
\* willRender is false: it is not added to the root node, its position and its
\* stencil reference stay as they are; and the call calls tile.didRender()
\* once when willRender is true and not at all otherwise.
C9_RenderLeavesAlone ==
    [][/\ \A i \in 1..Len(objects) :
            NotToRender(objects[i], lastRender', m_featureStateMap) =>
                /\ i \in rootNode' => i \in rootNode
                /\ objects'[i].position = objects[i].position
                /\ objects'[i].stencilRef = objects[i].stencilRef
                /\ objects'[i].frustumCulled = objects[i].frustumCulled
                /\ lastRender' # lastRender =>
                        i \notin (lastRender'.added \cup lastRender'.positioned
                                    \cup lastRender'.stencilled)
       /\ lastRender' # lastRender =>
            lastRender'.didRender = (IF lastRender'.willRender THEN 1 ELSE 0)]_vars

\* C9's case: at zoom level 3 the second object is out of its zoom range
\* [2, 3): the call has added the other two and left it as it was built.
C9_Witness ==
    /\ lastRender # <<>> /\ lastRender.called /\ lastRender.willRender
    /\ lastRender.zoomLevel = 3 /\ lastRender.didRender = 1
    /\ Len(objects) = 3 /\ objects[2].visible
    /\ OutOfZoomRange(objects[2], 3) /\ ~OutOfZoomRange(objects[2], 2)
    /\ lastRender.added = {1, 3} /\ rootNode = {1, 3}
    /\ objects[2].position = 0 /\ objects[2].stencilRef = 0
    /\ objects[1].position # 0

-----------------------------------------------------------------------------
(* DataSource: attach, detach, mapView and projection *)

MaxAttachCalls == 4

\* The MapViews a data source is attached to, each with its projection.
MapViews ==
    {[name |-> "mapView1", projection |-> "mercator"],
     [name |-> "mapView2", projection |-> "sphere"]}

\* get mapView: throws when m_mapView is undefined.
mapViewGetter(mapView) ==
    IF mapView = None THEN [threw |-> TRUE, value |-> None]
    ELSE [threw |-> FALSE, value |-> Some(Get(mapView))]

\* get projection: this.mapView.projection
projectionGetter(mapView) ==
    LET read == mapViewGetter(mapView) IN
    IF read.threw THEN read
    ELSE [threw |-> FALSE, value |-> Some(Get(read.value).projection)]

\* A mutant of attach: a data source that is attached keeps its MapView.
attachOnce(current, mapView) ==
    IF current = None THEN Some(mapView) ELSE current

\* attach(mapView): the new m_mapView.
attach(current, mapView) == Some(mapView)

\* detach(mapView), the assertion passed or compiled out: the new m_mapView.
detach(current, mapView) == None

AttachInit ==
    /\ m_mapView = None
    /\ mvCalls = <<>>
    /\ ExceptAttachIdle

Called(op, mapView, threw, value) ==
    [op |-> op, mapView |-> mapView, threw |-> threw, value |-> value]

CallAttach(mapView) ==
    /\ Len(mvCalls) < MaxAttachCalls
    /\ m_mapView' = attach(m_mapView, mapView)
    /\ mvCalls' = Append(mvCalls, Called("attach", Some(mapView), FALSE, None))
    /\ UNCHANGED exceptAttach

\* detach(mapView) of the MapView the data source is attached to, or of
\* another one where assert does not throw.
CallDetach(mapView) ==
    /\ Len(mvCalls) < MaxAttachCalls
    /\ m_mapView' = detach(m_mapView, mapView)
    /\ mvCalls' = Append(mvCalls, Called("detach", Some(mapView), FALSE, None))
    /\ UNCHANGED exceptAttach

\* detach(mapView) of a MapView the data source is not attached to, where
\* assert throws.
CallDetachAssertFails(mapView) ==
    /\ Len(mvCalls) < MaxAttachCalls
    /\ m_mapView # Some(mapView)
    /\ mvCalls' = Append(mvCalls, Called("detach", Some(mapView), TRUE, None))
    /\ UNCHANGED <<m_mapView, exceptAttach>>

ReadMapView ==
    /\ Len(mvCalls) < MaxAttachCalls
    /\ LET read == mapViewGetter(m_mapView) IN
        mvCalls' = Append(mvCalls, Called("mapView", None, read.threw, read.value))
    /\ UNCHANGED <<m_mapView, exceptAttach>>

ReadProjection ==
    /\ Len(mvCalls) < MaxAttachCalls
    /\ LET read == projectionGetter(m_mapView) IN
        mvCalls' = Append(mvCalls, Called("projection", None, read.threw, read.value))
    /\ UNCHANGED <<m_mapView, exceptAttach>>

AttachNext ==
    \/ \E mapView \in MapViews : CallAttach(mapView)
    \/ \E mapView \in MapViews : CallDetach(mapView)
    \/ \E mapView \in MapViews : CallDetachAssertFails(mapView)
    \/ ReadMapView
    \/ ReadProjection

SpecAttach == AttachInit /\ [][AttachNext]_vars

\* The MapView of the last attach among the first n calls that no detach has
\* followed, None when there is none. A detach that threw did not detach.
RECURSIVE AttachedAfter(_, _)
AttachedAfter(calls, n) ==
    IF n = 0 THEN None
    ELSE IF calls[n].op = "attach" THEN calls[n].mapView
    ELSE IF calls[n].op = "detach" /\ ~calls[n].threw THEN None
    ELSE AttachedAfter(calls, n - 1)

\* C11: after any attach and detach calls, a read of mapView or projection
\* throws exactly when the data source is not attached, and otherwise
\* returns the MapView attached last (its projection); a read, failed or
\* not, leaves it as attached as it was.
C11_ReadThrowsIffDetached ==
    /\ \A n \in 1..Len(mvCalls) :
        LET attached == AttachedAfter(mvCalls, n - 1) IN
        /\ mvCalls[n].op \in {"mapView", "projection"} =>
                mvCalls[n].threw <=> (attached = None)
        /\ mvCalls[n].op = "mapView" /\ attached # None =>
                mvCalls[n].value = attached
        /\ mvCalls[n].op = "projection" /\ attached # None =>
                mvCalls[n].value = Some(Get(attached).projection)
    /\ m_mapView = AttachedAfter(mvCalls, Len(mvCalls))

\* C11's case: attached to one MapView and then to another, the data source
\* gives the second one's projection; once detached, the read throws.
C11_Witness ==
    /\ Len(mvCalls) = 4
    /\ mvCalls[1].op = "attach" /\ mvCalls[2].op = "projection"
    /\ mvCalls[3].op = "detach" /\ ~mvCalls[3].threw
    /\ mvCalls[4].op = "mapView" /\ mvCalls[4].threw
    /\ ~mvCalls[2].threw
    /\ mvCalls[2].value = Some(Get(mvCalls[1].mapView).projection)

-----------------------------------------------------------------------------
(* What JavaScript makes of its values: ===, Number() and String() *)

\* a === b: same type and same value; NaN equals nothing, itself included.
StrictEquals(a, b) == a.type = b.type /\ ~a.nan /\ ~b.nan /\ a.num = b.num /\ a.str = b.str

Digits == <<"0", "1", "2", "3", "4", "5", "6", "7", "8", "9">>

IsDigit(ch) == \E d \in 1..10 : Digits[d] = ch

DigitValue(ch) == (CHOOSE d \in 1..10 : Digits[d] = ch) - 1

\* The value of a sequence of decimal digits.
RECURSIVE DecimalValue(_)
DecimalValue(chars) ==
    IF chars = <<>> THEN 0
    ELSE 10 * DecimalValue(SubSeq(chars, 1, Len(chars) - 1)) + DigitValue(chars[Len(chars)])

\* The decimal digits of a natural number.
RECURSIVE DecimalDigits(_)
DecimalDigits(n) ==
    IF n < 10 THEN <<Digits[n + 1]>>
    ELSE Append(DecimalDigits(n \div 10), Digits[(n % 10) + 1])

\* Number(value), on the undefined value, numbers, booleans, and strings of
\* decimal digits with an optional sign (any other string is NaN).
Number(v) ==
    IF v.type = "undefined" THEN JsNaN
    ELSE IF v.type = "number" \/ v.type = "boolean" THEN [v EXCEPT !.type = "number"]
    ELSE IF v.str = <<>> THEN JsNumber(0)
    ELSE IF \A i \in 1..Len(v.str) : IsDigit(v.str[i]) THEN JsNumber(DecimalValue(v.str))
    ELSE IF v.str[1] = "-" /\ Len(v.str) > 1 /\ \A i \in 2..Len(v.str) : IsDigit(v.str[i])
        THEN JsNumber(0 - DecimalValue(Tail(v.str)))
    ELSE JsNaN

\* String(value), as the sequence of characters.
String(v) ==
    IF v.type = "string" THEN v.str
    ELSE IF v.type = "undefined" THEN <<"u", "n", "d", "e", "f", "i", "n", "e", "d">>
    ELSE IF v.type = "boolean" THEN
        IF v.num = 1 THEN <<"t", "r", "u", "e">> ELSE <<"f", "a", "l", "s", "e">>
    ELSE IF v.nan THEN <<"N", "a", "N">>
    ELSE IF v.num < 0 THEN <<"-">> \o DecimalDigits(0 - v.num)
    ELSE DecimalDigits(v.num)

\* MapEnv.lookup: the value of a property of the feature, undefined when the
\* feature does not have it.
lookup(env, name) == IF name \in DOMAIN env THEN env[name] ELSE JsUndefined

\* OmvDecoder.getFeatureName: the abbreviation or the ISO code when asked
\* for and present, else the name in the first language that has one, else
\* the "name" property when it is a string.
RECURSIVE getFeatureNameIn(_, _)
getFeatureNameIn(env, languages) ==
    IF languages = <<>> THEN
        IF lookup(env, "name").type = "string" THEN lookup(env, "name") ELSE JsUndefined
    ELSE LET name == lookup(env, languages[1]) IN
        IF name.type = "string" /\ name.str # <<>> THEN name
        ELSE getFeatureNameIn(env, Tail(languages))

getFeatureName(env, useAbbreviation, useIsoCode, languages) ==
    LET abbreviation == lookup(env, "name:short")
        isoCode == lookup(env, "iso_code")
    IN  IF useAbbreviation /\ abbreviation.type = "string" /\ abbreviation.str # <<>>
            THEN abbreviation
        ELSE IF useIsoCode /\ isoCode.type = "string" /\ isoCode.str # <<>> THEN isoCode
        ELSE getFeatureNameIn(env, languages)

-----------------------------------------------------------------------------
(* Techniques (harp-datasource-protocol).  One record shape for all of them:
   a field a technique does not have is None. *)

BaseTechnique ==
    [name |-> "line", index |-> 0, label |-> None, useAbbreviation |-> FALSE,
     useIsoCode |-> FALSE, renderOrderBiasProperty |-> None, transient |-> FALSE,
     lineWidth |-> None, caps |-> None, boundaryWalls |-> None, footprint |-> None,
     maxSlope |-> None, textureCoordinateType |-> None, imageTexture |-> None,
     imageTextureField |-> None, imageTexturePrefix |-> None,
     imageTexturePostfix |-> None, poiName |-> None, poiNameField |-> None,
     color |-> None, vertexColors |-> FALSE, defaultHeight |-> None,
     constantHeight |-> FALSE]

IndexedTechnique(name, index) == [BaseTechnique EXCEPT !.name = name, !.index = index]

isLineTechnique(technique) == technique.name = "line"

isSolidLineTechnique(technique) == technique.name = "solid-line"

isDashedLineTechnique(technique) == technique.name = "dashed-line"

isTextTechnique(technique) == technique.name = "text"

isPoiTechnique(technique) == technique.name = "labeled-icon"

isLineMarkerTechnique(technique) == technique.name = "line-marker"

isExtrudedLineTechnique(technique) == technique.name = "extruded-line"

isFillTechnique(technique) == technique.name = "fill"

isExtrudedPolygonTechnique(technique) == technique.name = "extruded-polygon"

isStandardTechnique(technique) == technique.name = "standard"

\* textureCoordinateType(technique): the technique's own setting, which only
\* the fill, standard and extruded-polygon techniques have.
textureCoordinateType(technique) ==
    IF isFillTechnique(technique) \/ isStandardTechnique(technique)
            \/ isExtrudedPolygonTechnique(technique)
        THEN technique.textureCoordinateType
    ELSE None
-----------------------------------------------------------------------------
(* OmvDecodedTileEmitter *)

MIN_AVERAGE_CHAR_WIDTH == 5

\* 0.5, as a fraction.
SIZE_ESTIMATION_FACTOR == [num |-> 1, den |-> 2]

INVALID_ARRAY_INDEX == -1

\* A vertex: three consecutive numbers of a positions array.
Vertex(x, y, z) == [x |-> x, y |-> y, z |-> z]

\* OmvUtils.webMercatorTile2TargetWorld for a planar target projection: the
\* tile position scaled from the layer's extents to the projected bounds of
\* the tile (y pointing down in the tile), relative to the tile's center.
webMercatorTile2TargetWorld(extents, decodeInfo, pos) ==
    LET bounds == decodeInfo.projectedTileBounds
        tileWidth == bounds.max.x - bounds.min.x
        tileHeight == bounds.max.y - bounds.min.y
    IN  Vertex(bounds.min.x + (pos.x * tileWidth) \div extents - decodeInfo.center.x,
               bounds.max.y - (pos.y * tileHeight) \div extents - decodeInfo.center.y,
               0 - decodeInfo.center.z)

\* Math2D.computeSquaredLineLength: the squares of the segments' lengths,
\* summed.
RECURSIVE computeSquaredLineLength(_)
computeSquaredLineLength(aLine) ==
    IF Len(aLine) < 2 THEN 0
    ELSE LET dx == aLine[2].x - aLine[1].x
             dy == aLine[2].y - aLine[1].y
         IN  dx * dx + dy * dy + computeSquaredLineLength(Tail(aLine))

\* new LineGroup(hasNormalsAndUvs, undefined, isSimple)
LineGroup(hasNormalsAndUvs, isSimple) ==
    [hasNormalsAndUvs |-> hasNormalsAndUvs, isSimple |-> isSimple, vertices |-> <<>>,
     indices |-> <<>>]

\* The indices of the segments of a line of n vertices from base on (simple),
\* and of the two triangles of each segment of a line of n pairs of vertices
\* (complex).
RECURSIVE segmentIndices(_, _, _)
segmentIndices(base, n, i) ==
    IF i >= n THEN <<>>
    ELSE <<base + i - 1, base + i>> \o segmentIndices(base, n, i + 1)

RECURSIVE ribbonIndices(_, _, _)
ribbonIndices(base, n, i) ==
    IF i >= n THEN <<>>
    ELSE LET v == base + 2 * (i - 1)
         IN  <<v, v + 1, v + 2, v + 2, v + 1, v + 3>> \o ribbonIndices(base, n, i + 1)

\* Each vertex of a line twice.
RECURSIVE twice(_)
twice(aLine) == IF aLine = <<>> THEN <<>> ELSE <<aLine[1], aLine[1]>> \o twice(Tail(aLine))

\* LineGroup.add: a simple line gets a vertex per point and the two indices
\* of each segment, a complex line two vertices per point and the two
\* triangles of each segment.
LineGroupAdd(lineGroup, aLine) ==
    LET base == Len(lineGroup.vertices)
    IN  IF lineGroup.isSimple
            THEN [lineGroup EXCEPT !.vertices = @ \o aLine,
                                   !.indices = @ \o segmentIndices(base, Len(aLine), 1)]
        ELSE [lineGroup EXCEPT !.vertices = @ \o twice(aLine),
                               !.indices = @ \o ribbonIndices(base, Len(aLine), 1)]

RECURSIVE LineGroupAddAll(_, _)
LineGroupAddAll(lineGroup, lines) ==
    IF lines = <<>> THEN lineGroup
    ELSE LineGroupAddAll(LineGroupAdd(lineGroup, lines[1]), Tail(lines))

\* The indices base, base + 1, ..., base + n - 1.
IndexRun(base, n) == [i \in 1..n |-> base + i - 1]

\* triangulateLine: every segment of the line becomes a quad of four
\* vertices and two triangles; a circle cap adds a triangle at each end.
RECURSIVE triangulateSegments(_, _, _)
triangulateSegments(aLine, positions, indices) ==
    IF Len(aLine) < 2 THEN [positions |-> positions, indices |-> indices]
    ELSE LET base == Len(positions)
         IN  triangulateSegments(Tail(aLine),
                positions \o <<aLine[1], aLine[1], aLine[2], aLine[2]>>,
                indices \o <<base, base + 1, base + 2, base + 2, base + 1, base + 3>>)

triangulateLine(aLine, lineWidth, positions, indices, addCircle) ==
    LET quads == triangulateSegments(aLine, positions, indices)
        base == Len(quads.positions)
        first == aLine[1]
        last == aLine[Len(aLine)]
    IN  IF addCircle /\ Len(aLine) >= 2
            THEN [positions |-> quads.positions \o <<first, first, first, last, last, last>>,
                  indices |-> quads.indices \o IndexRun(base, 6)]
        ELSE quads

\* getPropertyValue(property, level): a number is its own value at every
\* level, an undefined property has none.
getPropertyValue(property, level) == property

\* new MeshBuffers(type)
MeshBuffers(type) ==
    [type |-> type, positions |-> <<>>, normals |-> <<>>, textureCoordinates |-> <<>>,
     colors |-> <<>>, extrusionAxis |-> <<>>, indices |-> <<>>, edgeIndices |-> <<>>,
     groups |-> <<>>, texts |-> <<>>, pathLengths |-> <<>>, stringCatalog |-> <<>>,
     imageTextures |-> <<>>, featureIds |-> <<>>, featureStarts |-> <<>>, objInfos |-> <<>>]

\* MeshBuffers.addText: the index of the text in the string catalog, which
\* gets the text when it does not have it.
addText(buffers, text) ==
    IF \E i \in 1..Len(buffers.stringCatalog) : buffers.stringCatalog[i] = text
        THEN [buffers |-> buffers,
              index |-> (CHOOSE i \in 1..Len(buffers.stringCatalog) :
                            /\ buffers.stringCatalog[i] = text
                            /\ \A j \in 1..(i - 1) : buffers.stringCatalog[j] # text) - 1]
    ELSE [buffers |-> [buffers EXCEPT !.stringCatalog = Append(@, text)],
          index |-> Len(buffers.stringCatalog)]

\* new OmvDecodedTileEmitter(decodeInfo, styleSetEvaluator, gatherFeatureIds,
\* skipShortLabels, enableElevationOverlay, languages).  m_meshBuffers is a
\* Map, which keeps the order the technique indices were first set in: a
\* sequence of the entries.
OmvDecodedTileEmitter(decodeInfo, evaluator, gather, skipShort, elevation, languages) ==
    [m_meshBuffers |-> <<>>, m_geometries |-> <<>>, m_textGeometries |-> <<>>,
     m_textPathGeometries |-> <<>>, m_poiGeometries |-> <<>>, m_simpleLines |-> <<>>,
     m_solidLines |-> <<>>, m_dashedLines |-> <<>>, m_sources |-> <<>>,
     m_decodeInfo |-> decodeInfo, m_styleSetEvaluator |-> evaluator,
     m_gatherFeatureIds |-> gather, m_skipShortLabels |-> skipShort,
     m_enableElevationOverlay |-> elevation, m_languages |-> languages]

\* m_meshBuffers.get(index) !== undefined, and where the entry is.
hasMeshBuffers(e, index) == \E i \in 1..Len(e.m_meshBuffers) : e.m_meshBuffers[i].index = index

meshBuffersAt(e, index) == CHOOSE i \in 1..Len(e.m_meshBuffers) : e.m_meshBuffers[i].index = index

getMeshBuffers(e, index) == e.m_meshBuffers[meshBuffersAt(e, index)].buffers

setMeshBuffers(e, index, buffers) ==
    [e EXCEPT !.m_meshBuffers[meshBuffersAt(e, index)].buffers = buffers]

\* findOrCreateMeshBuffers: found is FALSE when the technique index has
\* buffers of another geometry type (undefined is returned).
findOrCreateMeshBuffers(e, index, type) ==
    IF hasMeshBuffers(e, index)
        THEN [emitter |-> e, found |-> getMeshBuffers(e, index).type = type]
    ELSE [emitter |-> [e EXCEPT !.m_meshBuffers =
                            Append(@, [index |-> index, buffers |-> MeshBuffers(type)])],
          found |-> TRUE]

\* processFeatureCommon
processFeatureCommon(e, env) ==
    LET source == lookup(env, "source")
    IN  IF source.type = "string" /\ source.str # <<>>
                /\ ~\E i \in 1..Len(e.m_sources) : e.m_sources[i] = source.str
            THEN [e EXCEPT !.m_sources = Append(@, source.str)]
        ELSE e

\* getTextureCoordinateType
getTextureCoordinateType(e, technique) ==
    IF /\ \/ isFillTechnique(technique) \/ isSolidLineTechnique(technique)
          \/ isDashedLineTechnique(technique) \/ isExtrudedPolygonTechnique(technique)
       /\ e.m_enableElevationOverlay
        THEN Some("tile-space")
    ELSE textureCoordinateType(technique)

\* technique.renderOrderBiasProperty ? ... : a property name that is
\* undefined or empty is falsy.
Truthy(name) == name # None /\ Get(name) # ""

\* applyLineTechnique: list is the emitter's field the lines go to.
applyLineTechnique(e, list, technique, gather, lineType, featureId, lines, env, hasUvs) ==
    LET techniqueIndex == technique.index
        renderOrderOffset ==
            IF Truthy(technique.renderOrderBiasProperty)
                THEN lookup(env, Get(technique.renderOrderBiasProperty))
            ELSE JsNumber(0)
        linesGeometry == e[list]
        matches(aLine) ==
            /\ aLine.technique = techniqueIndex
            /\ StrictEquals(aLine.renderOrderOffset, renderOrderOffset)
        found == \E i \in 1..Len(linesGeometry) : matches(linesGeometry[i])
        at == CHOOSE i \in 1..Len(linesGeometry) :
                /\ matches(linesGeometry[i])
                /\ \A j \in 1..(i - 1) : ~matches(linesGeometry[j])
    IN  IF ~found THEN
            LET aLine ==
                    [type |-> IF lineType = "Complex" THEN "SolidLine" ELSE "Line",
                     technique |-> techniqueIndex,
                     renderOrderOffset |->
                        IF renderOrderOffset.type # "undefined" THEN Number(renderOrderOffset)
                        ELSE JsUndefined,
                     lines |-> LineGroupAddAll(LineGroup(hasUvs, lineType = "Simple"), lines),
                     featureIds |->
                        IF gather /\ ~technique.transient THEN Some(<<featureId>>) ELSE None,
                     featureStarts |->
                        IF gather /\ ~technique.transient THEN Some(<<0>>) ELSE None]
            IN  [e EXCEPT ![list] = Append(@, aLine)]
        ELSE
            LET old == linesGeometry[at]
                tagged == gather /\ old.featureIds # None /\ old.featureStarts # None
                new == [old EXCEPT
                            !.featureIds =
                                IF tagged THEN Some(Append(Get(@), featureId)) ELSE @,
                            !.featureStarts =
                                IF tagged THEN Some(Append(Get(@), Len(old.lines.indices))) ELSE @,
                            !.lines = LineGroupAddAll(@, lines)]
            IN  [e EXCEPT ![list][at] = new]
\* The bounding box of the points of a line met so far; None stands for the
\* box before the first point (Number.MAX_SAFE_INTEGER as the minima and
\* Number.MIN_SAFE_INTEGER as the maxima, which every coordinate improves).
RECURSIVE boundingBox(_, _, _)
boundingBox(aLine, i, box) ==
    IF i > Len(aLine) THEN box
    ELSE LET x == aLine[i].x
             y == aLine[i].y
             next == IF box = None THEN [minX |-> x, maxX |-> x, minY |-> y, maxY |-> y]
                     ELSE LET b == Get(box) IN
                        [minX |-> IF x < b.minX THEN x ELSE b.minX,
                         maxX |-> IF x > b.maxX THEN x ELSE b.maxX,
                         minY |-> IF y < b.minY THEN y ELSE b.minY,
                         maxY |-> IF y > b.maxY THEN y ELSE b.maxY]
         IN  boundingBox(aLine, i + 1, Some(next))

\* minTileSpace = MIN_AVERAGE_CHAR_WIDTH * text.length * metersPerPixel *
\* SIZE_ESTIMATION_FACTOR with metersPerPixel = tileSizeInMeters /
\* tileSizeOnScreen, kept as the fraction num / den.
minTileSpaceNoFactor(textLength, tileSizeInMeters, tileSizeOnScreen) ==
    [num |-> MIN_AVERAGE_CHAR_WIDTH * textLength * tileSizeInMeters, den |-> tileSizeOnScreen]

minTileSpace(textLength, tileSizeInMeters, tileSizeOnScreen) ==
    [num |-> MIN_AVERAGE_CHAR_WIDTH * textLength * tileSizeInMeters * SIZE_ESTIMATION_FACTOR.num,
     den |-> tileSizeOnScreen * SIZE_ESTIMATION_FACTOR.den]

\* The test of one line of processLineFeature: the squared diagonal of its
\* bounding box is at least minTileSpace squared.  A line of no point keeps
\* the initial box, whose diagonal is beyond every label.
isLongEnough(aLine, space) ==
    LET box == boundingBox(aLine, 1, None) IN
    IF box = None THEN TRUE
    ELSE LET b == Get(box)
             diagonalSq == (b.maxX - b.minX) * (b.maxX - b.minX)
                            + (b.maxY - b.minY) * (b.maxY - b.minY)
         IN  diagonalSq * space.den * space.den >= space.num * space.num

\* The lines of a feature in world coordinates.
projectLines(e, extents, geometry) ==
    [l \in 1..Len(geometry) |->
        [p \in 1..Len(geometry[l]) |->
            webMercatorTile2TargetWorld(extents, e.m_decodeInfo, geometry[l][p])]]

RECURSIVE SelectLines(_, _, _)
SelectLines(lines, space, i) ==
    IF i > Len(lines) THEN <<>>
    ELSE (IF isLongEnough(lines[i], space) THEN <<lines[i]>> ELSE <<>>)
            \o SelectLines(lines, space, i + 1)

\* prefix + value + postfix in JavaScript, where the technique has a prefix
\* or a postfix: a value that is no string is turned into one.
withPrefixAndPostfix(value, technique) ==
    LET prefixed == IF technique.imageTexturePrefix # None
                        THEN JsString(Get(technique.imageTexturePrefix) \o String(value))
                    ELSE value
    IN  IF technique.imageTexturePostfix # None
            THEN JsString(String(prefixed) \o Get(technique.imageTexturePostfix))
        ELSE prefixed

\* The image of a line marker: the technique's, or the one named by the
\* feature's imageTextureField property.
lineMarkerImageTexture(technique, env) ==
    IF technique.imageTextureField # None
        THEN Some(withPrefixAndPostfix(lookup(env, Get(technique.imageTextureField)), technique))
    ELSE technique.imageTexture

\* processLineFeature, the branch of a text, POI or line-marker technique.
processLabelTechnique(e, technique, lines, env, featureId, tileSizeInMeters) ==
    LET text ==
            IF technique.label # None THEN lookup(env, Get(technique.label))
            ELSE getFeatureName(env, technique.useAbbreviation, technique.useIsoCode,
                                e.m_languages)
        chars == String(text)
        space == minTileSpace(Len(chars), tileSizeInMeters, e.m_decodeInfo.tileSizeOnScreen)
        validLines == IF e.m_skipShortLabels THEN SelectLines(lines, space, 1) ELSE lines
        textPaths ==
            [i \in 1..Len(validLines) |->
                [technique |-> technique.index, path |-> validLines[i],
                 pathLengthSqr |-> computeSquaredLineLength(validLines[i]),
                 text |-> chars, featureId |-> featureId,
                 objInfos |-> IF e.m_gatherFeatureIds THEN Some(env) ELSE None]]
        pois ==
            [i \in 1..Len(validLines) |->
                [technique |-> technique.index, positions |-> validLines[i],
                 texts |-> <<0>>, text |-> chars,
                 imageTexture |-> lineMarkerImageTexture(technique, env),
                 imageTextures |-> <<1>>, featureId |-> featureId,
                 objInfos |-> IF e.m_gatherFeatureIds THEN Some(<<env>>) ELSE None]]
    IN  IF text.type = "undefined" THEN e
        ELSE IF validLines = <<>> THEN e
        ELSE IF isTextTechnique(technique)
            THEN [e EXCEPT !.m_textPathGeometries = @ \o textPaths]
        ELSE [e EXCEPT !.m_poiGeometries = @ \o pois]

\* triangulateLine for each line in turn, with the feature tagged at the
\* start of the whole run of lines.
RECURSIVE extrudeLines(_, _, _, _, _, _, _, _, _)
extrudeLines(buffers, lines, i, lineWidth, addCircle, gather, featureId, start, env) ==
    IF i > Len(lines) THEN buffers
    ELSE LET tri == triangulateLine(lines[i], lineWidth, buffers.positions, buffers.indices,
                                    addCircle)
             next == [buffers EXCEPT
                        !.positions = tri.positions,
                        !.indices = tri.indices,
                        !.featureIds = IF gather THEN Append(@, featureId) ELSE @,
                        !.featureStarts = IF gather THEN Append(@, start) ELSE @,
                        !.objInfos = IF gather THEN Append(@, env) ELSE @]
         IN  extrudeLines(next, lines, i + 1, lineWidth, addCircle, gather, featureId, start, env)

\* processLineFeature, the branch of an extruded-line technique.
processExtrudedLineTechnique(e, technique, lines, env, featureId) ==
    LET made == findOrCreateMeshBuffers(e, technique.index, "ExtrudedLine")
        buffers == getMeshBuffers(made.emitter, technique.index)
        start == Len(buffers.indices)
        lineWidth == getPropertyValue(technique.lineWidth, e.m_decodeInfo.tileKey.level)
        wantCircle == e.m_decodeInfo.tileKey.level >= 11
        addCircle == wantCircle /\ (technique.caps = None \/ technique.caps = Some("Circle"))
        filled == extrudeLines(buffers, lines, 1, lineWidth, addCircle, e.m_gatherFeatureIds,
                               featureId, start, env)
        group == [start |-> start, count |-> Len(filled.indices) - start,
                  technique |-> technique.index, featureId |-> featureId]
    IN  IF ~made.found THEN made.emitter
        ELSE IF lineWidth = None THEN made.emitter
        ELSE setMeshBuffers(made.emitter, technique.index,
                            [filled EXCEPT !.groups = Append(@, group)])

\* processLineFeature, the body of the loop over the feature's techniques.
processLineTechnique(e, technique, lines, env, featureId, tileSizeInMeters) ==
    IF technique.name \in {"line", "solid-line", "dashed-line"} THEN
        applyLineTechnique(e,
            IF technique.name = "line" THEN "m_simpleLines"
            ELSE IF technique.name = "solid-line" THEN "m_solidLines" ELSE "m_dashedLines",
            technique, e.m_gatherFeatureIds,
            IF technique.name = "line" THEN "Simple" ELSE "Complex",
            featureId, lines, env, getTextureCoordinateType(e, technique) # None)
    ELSE IF isTextTechnique(technique) \/ isPoiTechnique(technique)
            \/ isLineMarkerTechnique(technique) THEN
        processLabelTechnique(e, technique, lines, env, featureId, tileSizeInMeters)
    ELSE IF isExtrudedLineTechnique(technique) THEN
        processExtrudedLineTechnique(e, technique, lines, env, featureId)
    ELSE e

RECURSIVE processLineTechniques(_, _, _, _, _, _, _)
processLineTechniques(e, techniques, i, lines, env, featureId, tileSizeInMeters) ==
    IF i > Len(techniques) THEN e
    ELSE IF techniques[i] = None
        THEN processLineTechniques(e, techniques, i + 1, lines, env, featureId, tileSizeInMeters)
    ELSE processLineTechniques(
            processLineTechnique(e, Get(techniques[i]), lines, env, featureId, tileSizeInMeters),
            techniques, i + 1, lines, env, featureId, tileSizeInMeters)

\* processLineFeature(layer, extents, geometry, env, techniques, featureId).
\* The texture coordinates of the lines are left out: of them the emitter
\* keeps whether a line group has them.
processLineFeature(e, feature) ==
    LET bounds == e.m_decodeInfo.projectedTileBounds
        tileWidth == bounds.max.x - bounds.min.x
        tileHeight == bounds.max.y - bounds.min.y
        tileSizeInMeters == Max(tileWidth, tileHeight)
        lines == projectLines(e, feature.extents, feature.geometry)
    IN  processLineTechniques(processFeatureCommon(e, feature.env), feature.techniques, 1,
                              lines, feature.env, feature.featureId, tileSizeInMeters)
-----------------------------------------------------------------------------
(* Labels along lines: processLineFeature with and without skipShortLabels *)

MaxLabelFeatures == 2

LabelExtents == 4

Point(x, y) == [x |-> x, y |-> y]

DecodeInfo(width, height, tileSizeOnScreen, level) ==
    [tileKey |-> [level |-> level],
     projectedTileBounds |-> [min |-> Point(0, 0), max |-> Point(width, height)],
     center |-> Vertex(width \div 2, height \div 2, 0),
     tileSizeOnScreen |-> tileSizeOnScreen,
     targetProjection |-> [type |-> "Planar"]]

\* A square tile and one wider than high, at different sizes on screen.
LabelDecodeInfos == {DecodeInfo(8, 8, 4, 14), DecodeInfo(8, 4, 8, 10)}

StyleSetEvaluator(techniques) == [techniques |-> techniques]

LabelTechniques ==
    <<IndexedTechnique("text", 0),
      [IndexedTechnique("text", 1) EXCEPT !.label = Some("ref")],
      IndexedTechnique("line-marker", 2),
      IndexedTechnique("solid-line", 3),
      [IndexedTechnique("extruded-line", 4) EXCEPT !.lineWidth = Some(1)]>>

LabelTechniqueLists ==
    {<<Some(LabelTechniques[1]), Some(LabelTechniques[2])>>,
     <<Some(LabelTechniques[4]), None, Some(LabelTechniques[3]), Some(LabelTechniques[1]),
       Some(LabelTechniques[5])>>}

\* Lines of a feature in tile coordinates: a short and a long one; one whose
\* box has a diagonal of 5 units and one that returns near its start; a
\* line of a single point.
LabelGeometries ==
    {<<<<Point(0, 0), Point(1, 1)>>, <<Point(0, 0), Point(4, 4)>>>>,
     <<<<Point(0, 0), Point(3, 4)>>, <<Point(0, 0), Point(4, 0), Point(0, 4), Point(0, 1)>>>>,
     <<<<Point(2, 2)>>>>}

LabelEnvs ==
    {[name |-> JsString(<<"A", "B">>), ref |-> JsNumber(66), source |-> JsString(<<"o", "s", "m">>)],
     [name |-> JsString(<<"A">>)],
     [ref |-> JsString(<<"X", "1", "0", "0">>)],
     [name |-> JsString(<<>>), ref |-> JsBoolean(TRUE)]}

LineFeature(extents, geometry, env, techniques, featureId) ==
    [layer |-> "roads", extents |-> extents, geometry |-> geometry, env |-> env,
     techniques |-> techniques, featureId |-> featureId]

LabelFeatures ==
    {LineFeature(LabelExtents, geometry, env, techniques, Some(Len(geometry))) :
        geometry \in LabelGeometries, env \in LabelEnvs, techniques \in LabelTechniqueLists}

LabelInit ==
    /\ emitter \in
        {OmvDecodedTileEmitter(decodeInfo, StyleSetEvaluator(Some(LabelTechniques)), gather,
                               skipShort, FALSE, <<>>) :
            decodeInfo \in LabelDecodeInfos, gather \in BOOLEAN, skipShort \in BOOLEAN}
    /\ decodedTile = None
    /\ emitted = <<>>
    /\ ExceptEmitterIdle

Emitted(kind, feature) == [kind |-> kind, feature |-> feature]

ProcessLineFeature(feature) ==
    /\ emitter' = processLineFeature(emitter, feature)
    /\ emitted' = Append(emitted, Emitted("line", feature))
    /\ UNCHANGED <<decodedTile, exceptEmitter>>

LabelNext ==
    \E feature \in LabelFeatures :
        /\ Len(emitted) < MaxLabelFeatures
        /\ ProcessLineFeature(feature)

SpecLabels == LabelInit /\ [][LabelNext]_vars

\* The label of a feature under a technique, as the text it is drawn with; None
\* when the feature has no label.
LabelOf(technique, env) ==
    LET value == IF technique.label # None
                    THEN (IF Get(technique.label) \in DOMAIN env
                            THEN env[Get(technique.label)] ELSE JsUndefined)
                 ELSE IF "name" \in DOMAIN env THEN env["name"] ELSE JsUndefined
    IN  IF value = JsUndefined THEN None ELSE Some(String(value))

\* The width and the height of the smallest box around the world positions of
\* a line.
BoxWidth(path) ==
    LET xs == {path[i].x : i \in 1..Len(path)}
    IN  (CHOOSE hi \in xs : \A x \in xs : x <= hi) - (CHOOSE lo \in xs : \A x \in xs : lo <= x)

BoxHeight(path) ==
    LET ys == {path[i].y : i \in 1..Len(path)}
    IN  (CHOOSE hi \in ys : \A y \in ys : y <= hi) - (CHOOSE lo \in ys : \A y \in ys : lo <= y)

\* The diagonal of the box of a line against the threshold
\* 5 * length * (tileSizeInMeters / tileSizeOnScreen) * 0.5: both are not
\* negative, so their squares are compared, with the divisions multiplied out.
\* The result is -1 below the threshold, 0 on it, 1 above it.
DiagonalAgainstThreshold(path, textLength, decodeInfo) ==
    LET width == decodeInfo.projectedTileBounds.max.x - decodeInfo.projectedTileBounds.min.x
        height == decodeInfo.projectedTileBounds.max.y - decodeInfo.projectedTileBounds.min.y
        meters == IF width > height THEN width ELSE height
        screen == decodeInfo.tileSizeOnScreen
        diagonalSq == BoxWidth(path) * BoxWidth(path) + BoxHeight(path) * BoxHeight(path)
        lhs == 4 * screen * screen * diagonalSq
        rhs == 25 * textLength * textLength * meters * meters
    IN  IF lhs < rhs THEN -1 ELSE IF lhs = rhs THEN 0 ELSE 1

\* The text-path geometries a state has more than the state before it.
AddedTextPaths ==
    SubSeq(emitter'.m_textPathGeometries, Len(emitter.m_textPathGeometries) + 1,
           Len(emitter'.m_textPathGeometries))

\* How many of them are of a technique and along a path.
TextPathsAlong(added, techniqueIndex, path) ==
    Cardinality({i \in 1..Len(added) :
        added[i].technique = techniqueIndex /\ added[i].path = path})

\* C12: with skipShortLabels, processLineFeature under a text technique adds
\* no text-path geometry for a line of a labelled feature whose bounding-box
\* diagonal is below 5 * text.length * (tileSizeInMeters / tileSizeOnScreen)
\* * 0.5 and exactly one for each line above it; without skipShortLabels it
\* adds exactly one for every line.
C12_ShortLabelsSkipped ==
    [][emitted' # emitted =>
        LET feature == emitted'[Len(emitted')].feature
            paths == projectLines(emitter, feature.extents, feature.geometry)
        IN  \A t \in 1..Len(feature.techniques) :
                LET technique == feature.techniques[t] IN
                technique # None /\ Get(technique).name = "text"
                        /\ LabelOf(Get(technique), feature.env) # None =>
                    \A l \in 1..Len(paths) :
                        LET count == TextPathsAlong(AddedTextPaths, Get(technique).index, paths[l])
                            against == DiagonalAgainstThreshold(paths[l],
                                            Len(Get(LabelOf(Get(technique), feature.env))),
                                            emitter.m_decodeInfo)
                        IN  IF emitter.m_skipShortLabels
                                THEN /\ against = -1 => count = 0
                                     /\ against = 1 => count = 1
                            ELSE count = 1]_vars

\* C12's case: with skipShortLabels, a labelled feature of two lines, one
\* below the threshold and one above it, was given one text-path geometry under
\* its text technique, along the long line.
C12_Witness ==
    /\ emitter # <<>> /\ emitter.m_skipShortLabels
    /\ Len(emitted) = 1
    /\ LET feature == emitted[1].feature
           paths == projectLines(emitter, feature.extents, feature.geometry)
       IN  /\ Len(paths) = 2
           /\ Len(feature.techniques) = 2
           /\ LabelOf(Get(feature.techniques[1]), feature.env) = Some(<<"A", "B">>)
           /\ DiagonalAgainstThreshold(paths[1], 2, emitter.m_decodeInfo) = -1
           /\ DiagonalAgainstThreshold(paths[2], 2, emitter.m_decodeInfo) = 1
           /\ \E i \in 1..Len(emitter.m_textPathGeometries) :
                /\ emitter.m_textPathGeometries[i].technique = 0
                /\ emitter.m_textPathGeometries[i].path = paths[2]
           /\ \A i \in 1..Len(emitter.m_textPathGeometries) :
                emitter.m_textPathGeometries[i].path # paths[1]

-----------------------------------------------------------------------------
(* Line geometries: applyLineTechnique over the features of a tile *)

MaxLineFeatures == 3

LineTechniques ==
    <<IndexedTechnique("line", 0),
      [IndexedTechnique("solid-line", 1) EXCEPT !.renderOrderBiasProperty = Some("sort_rank")],
      [IndexedTechnique("dashed-line", 2) EXCEPT
            !.renderOrderBiasProperty = Some("sort_rank"), !.transient = TRUE]>>

LineTechniqueLists ==
    {<<Some(LineTechniques[1]), Some(LineTechniques[2])>>,
     <<Some(LineTechniques[2]), Some(LineTechniques[3])>>}

LineGeometries ==
    {<<<<Point(0, 0), Point(2, 2)>>>>,
     <<<<Point(0, 1), Point(4, 1), Point(4, 3)>>, <<Point(1, 0), Point(1, 4)>>>>}

\* The render-order bias of a feature: a number, the same number as a string,
\* no number at all, or no such property.
LineEnvs ==
    {[sort_rank |-> JsNumber(0)],
     [sort_rank |-> JsNumber(5)],
     [sort_rank |-> JsString(<<"5">>)],
     [sort_rank |-> JsString(<<"t", "o", "p">>)],
     [kind |-> JsString(<<"r", "o", "a", "d">>)]}

LineFeatures ==
    {LineFeature(LabelExtents, geometry, env, techniques, Some(Len(geometry))) :
        geometry \in LineGeometries, env \in LineEnvs, techniques \in LineTechniqueLists}

LinesInit ==
    /\ emitter \in
        {OmvDecodedTileEmitter(DecodeInfo(8, 8, 4, 14), StyleSetEvaluator(Some(LineTechniques)),
                               gather, FALSE, elevation, <<>>) :
            gather \in BOOLEAN, elevation \in BOOLEAN}
    /\ decodedTile = None
    /\ emitted = <<>>
    /\ ExceptEmitterIdle

LinesNext ==
    \E feature \in LineFeatures :
        /\ Len(emitted) < MaxLineFeatures
        /\ ProcessLineFeature(feature)

SpecLines == LinesInit /\ [][LinesNext]_vars

\* Two LinesGeometry of one (technique index, render-order offset) pair: the
\* same technique, and offsets that are the same number or both undefined.
SamePair(a, b) ==
    /\ a.technique = b.technique
    /\ a.renderOrderOffset.type = b.renderOrderOffset.type
    /\ ~a.renderOrderOffset.nan /\ ~b.renderOrderOffset.nan
    /\ a.renderOrderOffset.num = b.renderOrderOffset.num

OnePerPair(linesGeometry) ==
    \A i, j \in 1..Len(linesGeometry) :
        i # j => ~SamePair(linesGeometry[i], linesGeometry[j])

\* C13: whatever the render-order bias of the features, each of the simple,
\* solid and dashed line lists holds at most one LinesGeometry per (technique
\* index, render-order offset) pair.
C13_OneLinesGeometryPerPair ==
    emitter # <<>> =>
        /\ OnePerPair(emitter.m_simpleLines)
        /\ OnePerPair(emitter.m_solidLines)
        /\ OnePerPair(emitter.m_dashedLines)

-----------------------------------------------------------------------------
(* Points and polygons *)

\* composeTechniqueTextureName: the name between the technique's prefix and
\* postfix.
composeTechniqueTextureName(name, technique) == withPrefixAndPostfix(name, technique)

\* processPointFeature: the image of a POI technique.
poiImageTexture(technique, env) ==
    IF ~isPoiTechnique(technique) THEN None
    ELSE IF technique.poiName # None THEN technique.poiName
    ELSE IF technique.poiNameField # None THEN Some(lookup(env, Get(technique.poiNameField)))
    ELSE IF technique.imageTextureField # None
        THEN Some(composeTechniqueTextureName(lookup(env, Get(technique.imageTextureField)),
                                              technique))
    ELSE technique.imageTexture

\* processPointFeature, the loop over the positions of the feature.
RECURSIVE processPositions(_, _, _, _, _, _, _, _)
processPositions(buffers, e, extents, geometry, i, technique, env, featureId) ==
    IF i > Len(geometry) THEN buffers
    ELSE
        LET shouldCreateTextGeometries == isTextTechnique(technique) \/ isPoiTechnique(technique)
            name == IF technique.label # None THEN lookup(env, Get(technique.label))
                    ELSE getFeatureName(env, technique.useAbbreviation, technique.useIsoCode,
                                        e.m_languages)
            named == IF shouldCreateTextGeometries /\ name.type = "string" /\ name.str # <<>>
                        THEN addText(buffers, name)
                     ELSE [buffers |-> buffers, index |-> INVALID_ARRAY_INDEX]
            withText == IF shouldCreateTextGeometries
                            THEN [named.buffers EXCEPT !.texts = Append(@, named.index)]
                        ELSE buffers
            imageTexture == poiImageTexture(technique, env)
            imaged == IF imageTexture = None
                        THEN [buffers |-> withText, index |-> INVALID_ARRAY_INDEX]
                      ELSE addText(withText, Get(imageTexture))
            next == [imaged.buffers EXCEPT
                        !.positions = Append(@, webMercatorTile2TargetWorld(extents,
                                                    e.m_decodeInfo, geometry[i])),
                        !.featureIds = IF e.m_gatherFeatureIds THEN Append(@, featureId) ELSE @,
                        !.objInfos = IF e.m_gatherFeatureIds THEN Append(@, env) ELSE @,
                        !.imageTextures = Append(@, imaged.index)]
        IN  processPositions(next, e, extents, geometry, i + 1, technique, env, featureId)

\* processPointFeature, the loop over the techniques of the feature.
RECURSIVE processPointTechniques(_, _, _)
processPointTechniques(e, feature, i) ==
    IF i > Len(feature.techniques) THEN e
    ELSE IF feature.techniques[i] = None THEN processPointTechniques(e, feature, i + 1)
    ELSE
        LET technique == Get(feature.techniques[i])
            made == findOrCreateMeshBuffers(e, technique.index, "Point")
            filled == processPositions(getMeshBuffers(made.emitter, technique.index),
                        made.emitter, feature.extents, feature.geometry, 1, technique,
                        feature.env, feature.featureId)
        IN  IF ~made.found THEN processPointTechniques(made.emitter, feature, i + 1)
            ELSE processPointTechniques(setMeshBuffers(made.emitter, technique.index, filled),
                                        feature, i + 1)

\* processPointFeature(layer, extents, geometry, env, techniques, featureId)
processPointFeature(e, feature) ==
    processPointTechniques(processFeatureCommon(e, feature.env), feature, 1)

\* OmvDecoder.Ring: a contour with its winding, the sign of the area it
\* encloses (twice the area, by the shoelace formula).
RECURSIVE ringArea2(_, _)
ringArea2(contour, i) ==
    IF i > Len(contour) THEN 0
    ELSE LET next == contour[(i % Len(contour)) + 1]
         IN  contour[i].x * next.y - next.x * contour[i].y + ringArea2(contour, i + 1)

Ring(extents, contour) ==
    [extents |-> extents, contour |-> contour, winding |-> ringArea2(contour, 1) < 0]

\* The segment from curr to next does not lie on the border of the tile, that
\* is, its ends are not both on or beyond the same side.
insideExtents(curr, next, extents) ==
    ~ \/ curr.x <= 0 /\ next.x <= 0
      \/ curr.x >= extents /\ next.x >= extents
      \/ curr.y <= 0 /\ next.y <= 0
      \/ curr.y >= extents /\ next.y >= extents

\* The vertices of a ring with every segment given an edge, on the border of
\* the tile or not.
ringVerticesAllEdges(contour, extents, boundaryWalls, vertexOffset) ==
    [i \in 1..Len(contour) |->
        LET nextIdx == i % Len(contour)
            inside == insideExtents(contour[i], contour[nextIdx + 1], extents)
        IN  [x |-> contour[i].x, y |-> 0 - contour[i].y, uv |-> contour[i].uv,
             edge |-> vertexOffset + nextIdx,
             wall |-> IF boundaryWalls \/ inside THEN vertexOffset + nextIdx ELSE -1]]

\* The vertices of one ring as applyPolygonTechnique lays them out for the
\* triangulation: the position with y inverted, the texture coordinates, and
\* the indices of the next vertex along the ring for the edges and for the
\* walls, -1 where the segment to it gets none.
ringVertices(contour, extents, boundaryWalls, vertexOffset) ==
    [i \in 1..Len(contour) |->
        LET nextIdx == i % Len(contour)
            inside == insideExtents(contour[i], contour[nextIdx + 1], extents)
        IN  [x |-> contour[i].x, y |-> 0 - contour[i].y, uv |-> contour[i].uv,
             edge |-> IF inside THEN vertexOffset + nextIdx ELSE -1,
             wall |-> IF boundaryWalls \/ inside THEN vertexOffset + nextIdx ELSE -1]]

\* The index after the holes that follow the outer ring before ringIndex:
\* the rings of the opposite winding.
RECURSIVE holesEnd(_, _, _)
holesEnd(polygon, ringIndex, winding) ==
    IF ringIndex > Len(polygon) THEN ringIndex
    ELSE IF polygon[ringIndex].winding = winding THEN ringIndex
    ELSE holesEnd(polygon, ringIndex + 1, winding)

\* The vertices of the holes ringIndex .. last, appended to vertices.
RECURSIVE holeVertices(_, _, _, _, _, _)
holeVertices(vertices, polygon, ringIndex, last, extents, boundaryWalls) ==
    IF ringIndex > last THEN vertices
    ELSE holeVertices(
            vertices \o ringVertices(polygon[ringIndex].contour, extents, boundaryWalls,
                                     Len(vertices)),
            polygon, ringIndex + 1, last, extents, boundaryWalls)

\* earcut(vertices, holes, vertexStride) where it returns: the triangles of
\* a fan over the outer ring, as indices of vertices.
RECURSIVE earcutFan(_, _)
earcutFan(outerCount, i) ==
    IF i + 1 >= outerCount THEN <<>>
    ELSE <<0, i, i + 1>> \o earcutFan(outerCount, i + 1)

earcut(vertices, outerCount) == earcutFan(outerCount, 1)

Dot(a, b) == a.x * b.x + a.y * b.y + a.z * b.z

Minus(a, b) == Vertex(a.x - b.x, a.y - b.y, a.z - b.z)

\* addEdges: tmpEdgeA.dot(tmpEdgeB) <= maxSlope for a maxSlope of 0, where
\* the dot product of the normalized edges has the sign of that of the edges.
withinMaxSlope(w, prev, curr, next) ==
    LET prevPos == w.positions[w.featureBaseVertex + prev * 2 + 1]
        currPos == w.positions[w.featureBaseVertex + curr * 2 + 1]
        nextPos == w.positions[w.featureBaseVertex + next * 2 + 1]
    IN  Dot(Minus(currPos, prevPos), Minus(nextPos, currPos)) <= Get(w.maxSlope)

\* addEdges: what one vertex with a next vertex adds to the edge indices.
edgeIndicesOf(w, prev, curr, next) ==
    IF ~w.isExtruded THEN <<w.featureBaseVertex + curr, w.featureBaseVertex + next>>
    ELSE (IF w.hasFootprint
            THEN <<w.featureBaseVertex + curr * 2, w.featureBaseVertex + next * 2>>
          ELSE <<>>)
         \o <<w.featureBaseVertex + curr * 2 + 1, w.featureBaseVertex + next * 2 + 1>>
         \o (IF w.maxSlope = None \/ (prev # None /\ withinMaxSlope(w, Get(prev), curr, next))
                THEN <<w.featureBaseVertex + curr * 2, w.featureBaseVertex + curr * 2 + 1>>
             ELSE <<>>)

\* addEdges: the outer loop (from a vertex no ring has reached) and the inner
\* loop (along the next-edge links until the ring closes or a link is -1).
RECURSIVE addEdgesOuter(_, _, _, _)
RECURSIVE addEdgesInner(_, _, _, _, _, _)
addEdgesOuter(w, currRingVertex, maxRingVertex, indices) ==
    IF currRingVertex >= w.featureVertexCount THEN indices
    ELSE addEdgesInner(w, currRingVertex, None, None, maxRingVertex, indices)

addEdgesInner(w, currRingVertex, firstRingVertex, prevRingVertex, maxRingVertex, indices) ==
    IF firstRingVertex # None /\ currRingVertex = Get(firstRingVertex)
        THEN addEdgesOuter(w, maxRingVertex + 1, maxRingVertex, indices)
    ELSE
        LET first == IF firstRingVertex = None THEN Some(currRingVertex) ELSE firstRingVertex
            max == IF currRingVertex < w.featureVertexCount
                    THEN Max(maxRingVertex, currRingVertex) ELSE maxRingVertex
            nextRingVertex == w.vertices[currRingVertex + 1].edge
        IN  IF nextRingVertex < 0 THEN addEdgesOuter(w, max + 1, max, indices)
            ELSE addEdgesInner(w, nextRingVertex, first, Some(currRingVertex), max,
                    indices \o edgeIndicesOf(w, prevRingVertex, currRingVertex, nextRingVertex))

addEdges(w, indices) == addEdgesOuter(w, 0, 0, indices)

\* addWalls: the same walk along the next-wall links; each link adds the two
\* triangles of a wall.
RECURSIVE addWallsOuter(_, _, _, _)
RECURSIVE addWallsInner(_, _, _, _, _)
addWallsOuter(w, currRingVertex, maxRingVertex, indices) ==
    IF currRingVertex >= w.featureVertexCount THEN indices
    ELSE addWallsInner(w, currRingVertex, None, maxRingVertex, indices)

addWallsInner(w, currRingVertex, firstRingVertex, maxRingVertex, indices) ==
    IF firstRingVertex # None /\ currRingVertex = Get(firstRingVertex)
        THEN addWallsOuter(w, maxRingVertex + 1, maxRingVertex, indices)
    ELSE
        LET first == IF firstRingVertex = None THEN Some(currRingVertex) ELSE firstRingVertex
            max == IF currRingVertex < w.featureVertexCount
                    THEN Max(maxRingVertex, currRingVertex) ELSE maxRingVertex
            nextRingVertex == w.vertices[currRingVertex + 1].wall
            base == w.featureBaseVertex
        IN  IF nextRingVertex < 0 THEN addWallsOuter(w, max + 1, max, indices)
            ELSE addWallsInner(w, nextRingVertex, first, max,
                    indices \o <<base + currRingVertex * 2, base + currRingVertex * 2 + 1,
                                 base + nextRingVertex * 2 + 1, base + nextRingVertex * 2 + 1,
                                 base + nextRingVertex * 2, base + currRingVertex * 2>>)

addWalls(w, indices) == addWallsOuter(w, 0, 0, indices)

\* Texture coordinates whose v is not turned over.
computeTexCoordsUnflipped(tilePos, tileExtents) ==
    [u |-> [num |-> tilePos.x, den |-> tileExtents],
     v |-> [num |-> tilePos.y, den |-> tileExtents]]

\* The function getComputeTexCoordsFunc returns for tile-space texture
\* coordinates: u = x / extents and v = 1 - y / extents, as fractions.
computeTexCoords(tilePos, tileExtents) ==
    [u |-> [num |-> tilePos.x, den |-> tileExtents],
     v |-> [num |-> tileExtents - tilePos.y, den |-> tileExtents]]

\* getComputeTexCoordsFunc(technique) is defined: only for tile-space texture
\* coordinates here, no technique of the model asks for equirectangular ones.
getComputeTexCoordsFunc(e, technique) == getTextureCoordinateType(e, technique) = Some("tile-space")

\* processPolygonFeature: the contour of a ring, each coordinate with its
\* texture coordinates where the technique has them.
ringContour(outline, extents, hasTexCoords) ==
    [i \in 1..Len(outline) |->
        [x |-> outline[i].x, y |-> outline[i].y,
         uv |-> IF hasTexCoords THEN Some(computeTexCoords(outline[i], extents)) ELSE None]]

\* n copies of a value.
Copies(n, value) == [i \in 1..n |-> value]

\* applyPolygonTechnique: the vertices of a triangulated ring added to the
\* buffers, the foot of each and, when extruded, its roof.  c holds what is
\* fixed for the technique and the feature.
RECURSIVE assembleVertexBuffer(_, _, _, _, _)
assembleVertexBuffer(buffers, e, c, vertices, i) ==
    IF i > Len(vertices) THEN buffers
    ELSE
        LET tilePos == Point(vertices[i].x, 0 - vertices[i].y)
            world == webMercatorTile2TargetWorld(c.extents, e.m_decodeInfo, tilePos)
            scaleFactor == 1
            foot == Vertex(world.x, world.y, world.z + c.minHeight * scaleFactor)
            roof == Vertex(world.x, world.y, world.z + c.height * scaleFactor)
            n == IF c.isExtruded THEN 2 ELSE 1
            next == [buffers EXCEPT
                !.positions = @ \o (IF c.isExtruded THEN <<foot, roof>> ELSE <<foot>>),
                !.textureCoordinates =
                    IF c.texCoordType # None THEN @ \o Copies(n, Get(vertices[i].uv)) ELSE @,
                !.normals =
                    IF e.m_enableElevationOverlay THEN @ \o Copies(n, Vertex(0, 0, 1)) ELSE @,
                !.extrusionAxis =
                    IF c.isExtruded THEN @ \o <<Vertex(0, 0, 0), Minus(roof, foot)>> ELSE @,
                !.colors =
                    IF c.isExtruded /\ c.technique.vertexColors
                        THEN @ \o Copies(2, c.color) ELSE @]
        IN  assembleVertexBuffer(next, e, c, vertices, i + 1)

\* The triangles of the footprint as indices of the position buffer: of the
\* roof vertices when extruded.
footprintIndices(triangles, polygonBaseVertex, isExtruded) ==
    [i \in 1..Len(triangles) |->
        IF isExtruded THEN polygonBaseVertex + triangles[i] * 2 + 1
        ELSE polygonBaseVertex + triangles[i]]

\* The catch block leaving the error to the caller.
rethrowTriangulation(thrown) == thrown

\* catch (err) { logger.error(...) }: the error of a triangulation is logged
\* and goes no further.
catchTriangulation(thrown) == FALSE

\* applyPolygonTechnique, the end of the try block: the indices of the
\* footprint, the edges and the walls of a triangulated ring, added to the
\* buffers that hold its vertices.  w is what addEdges and addWalls walk.
ringIndices(assembled, w, c, triangles) ==
    [assembled EXCEPT
        !.edgeIndices = IF c.hasEdges THEN addEdges(w, @) ELSE @,
        !.indices =
            IF c.isExtruded
                THEN addWalls(w, @ \o footprintIndices(triangles, w.featureBaseVertex, TRUE))
            ELSE @ \o footprintIndices(triangles, w.featureBaseVertex, FALSE)]

\* applyPolygonTechnique, the try block for the vertices of an outer ring and
\* its holes.
triangulateRing(buffers, e, c, vertices, outerCount) ==
    ringIndices(assembleVertexBuffer(buffers, e, c, vertices, 1),
                [featureBaseVertex |-> Len(buffers.positions),
                 featureVertexCount |-> Len(vertices),
                 vertices |-> vertices,
                 positions |-> assembleVertexBuffer(buffers, e, c, vertices, 1).positions,
                 isExtruded |-> c.isExtruded,
                 hasFootprint |-> c.technique.footprint = Some(TRUE),
                 maxSlope |-> c.technique.maxSlope],
                c, earcut(vertices, outerCount))

\* applyPolygonTechnique, one turn of the loop over the rings of a polygon:
\* the outer ring at ringIndex and the holes up to last.  earcutThrows holds
\* the <<polygon, ring>> places whose triangulation throws.
polygonRing(buffers, e, c, polygon, p, ringIndex, last) ==
    IF <<p, ringIndex>> \in c.earcutThrows
        THEN [buffers |-> buffers, threw |-> catchTriangulation(TRUE), ringIndex |-> last + 1]
    ELSE [buffers |->
            triangulateRing(buffers, e, c,
                holeVertices(ringVertices(polygon[ringIndex].contour, c.extents,
                                          c.boundaryWalls, 0),
                             polygon, ringIndex + 1, last, c.extents, c.boundaryWalls),
                Len(polygon[ringIndex].contour)),
          threw |-> FALSE, ringIndex |-> last + 1]

\* applyPolygonTechnique, the loop over the rings of a polygon.
RECURSIVE polygonRings(_, _, _, _, _, _)
RECURSIVE polygonRingsNext(_, _, _, _, _)
polygonRings(buffers, e, c, polygon, p, ringIndex) ==
    IF ringIndex > Len(polygon) THEN [buffers |-> buffers, threw |-> FALSE]
    ELSE polygonRingsNext(
            polygonRing(buffers, e, c, polygon, p, ringIndex,
                        holesEnd(polygon, ringIndex + 1, polygon[ringIndex].winding) - 1),
            e, c, polygon, p)

polygonRingsNext(ring, e, c, polygon, p) ==
    IF ring.threw THEN [buffers |-> ring.buffers, threw |-> TRUE]
    ELSE polygonRings(ring.buffers, e, c, polygon, p, ring.ringIndex)

\* applyPolygonTechnique, after the rings of a polygon: the feature data and
\* the group of what the polygon added from startIndexCount on.
polygonGroup(buffers, e, c, startIndexCount) ==
    [buffers EXCEPT
        !.objInfos = IF e.m_gatherFeatureIds THEN Append(@, c.env) ELSE @,
        !.featureIds = IF e.m_gatherFeatureIds THEN Append(@, c.featureId) ELSE @,
        !.featureStarts = IF e.m_gatherFeatureIds THEN Append(@, startIndexCount) ELSE @,
        !.groups =
            IF Len(buffers.indices) - startIndexCount > 0
                THEN Append(@, [start |-> startIndexCount,
                                count |-> Len(buffers.indices) - startIndexCount,
                                technique |-> c.technique.index, featureId |-> c.featureId])
            ELSE @]

\* applyPolygonTechnique, the loop over the polygons of the feature.
RECURSIVE polygonsLoop(_, _, _, _, _)
RECURSIVE polygonsLoopNext(_, _, _, _, _, _)
polygonsLoop(buffers, e, c, polygons, p) ==
    IF p > Len(polygons) THEN [buffers |-> buffers, threw |-> FALSE]
    ELSE polygonsLoopNext(polygonRings(buffers, e, c, polygons[p], p, 1),
                          Len(buffers.indices), e, c, polygons, p)

polygonsLoopNext(rings, startIndexCount, e, c, polygons, p) ==
    IF rings.threw THEN rings
    ELSE polygonsLoop(polygonGroup(rings.buffers, e, c, startIndexCount), e, c, polygons, p + 1)

\* The number a property of the feature gives, where it has the property.
heightOf(env, name, default) ==
    IF lookup(env, name).type # "undefined" THEN lookup(env, name).num ELSE default

\* The mesh buffers of a technique after applyPolygonTechnique, and whether
\* an error left it.
storeMeshBuffers(e, index, done) ==
    [emitter |-> setMeshBuffers(e, index, done.buffers), threw |-> done.threw]

\* applyPolygonTechnique(polygons, technique, techniqueIndex, featureId, env,
\* extents), for a planar projection.
applyPolygonTechnique(e, polygons, technique, featureId, env, extents, earcutThrows) ==
    LET isExtruded == isExtrudedPolygonTechnique(technique)
        isFilled == isFillTechnique(technique)
        made == findOrCreateMeshBuffers(e, technique.index,
                    IF isExtruded THEN "ExtrudedPolygon" ELSE "Polygon")
        edgeWidth == IF (isExtruded \/ isFilled) /\ technique.lineWidth # None
                        THEN Get(technique.lineWidth) ELSE 0
        c == [technique |-> technique, featureId |-> featureId, env |-> env,
              extents |-> extents, earcutThrows |-> earcutThrows,
              isExtruded |-> isExtruded,
              boundaryWalls |-> technique.boundaryWalls # Some(FALSE),
              texCoordType |-> getTextureCoordinateType(e, technique),
              minHeight |-> IF isFilled THEN 0 ELSE heightOf(env, "min_height", 0),
              height |-> heightOf(env, "height",
                            IF technique.defaultHeight # None THEN Get(technique.defaultHeight)
                            ELSE 0),
              hasEdges |-> edgeWidth > 0,
              color |-> IF technique.color # None THEN technique.color
                        ELSE Some(lookup(env, "color"))]
    IN  IF ~made.found THEN [emitter |-> made.emitter, threw |-> FALSE]
        ELSE storeMeshBuffers(made.emitter, technique.index,
                polygonsLoop(getMeshBuffers(made.emitter, technique.index), made.emitter, c,
                             polygons, 1))

\* processPolygonFeature for a line technique: the outline of a ring as
\* lines, cut where a segment lies on the border of the tile.
RECURSIVE ringOutlines(_, _, _, _, _, _)
ringOutlines(e, extents, contour, i, line, lines) ==
    IF i > Len(contour) THEN (IF line # <<>> THEN Append(lines, line) ELSE lines)
    ELSE
        LET curr == contour[i]
            next == contour[(i % Len(contour)) + 1]
            isOutline == insideExtents(curr, next, extents)
            currWorld == webMercatorTile2TargetWorld(extents, e.m_decodeInfo, curr)
            nextWorld == webMercatorTile2TargetWorld(extents, e.m_decodeInfo, next)
        IN  IF ~isOutline /\ line # <<>>
                THEN ringOutlines(e, extents, contour, i + 1, <<>>, Append(lines, line))
            ELSE IF ~isOutline THEN ringOutlines(e, extents, contour, i + 1, line, lines)
            ELSE IF line = <<>>
                THEN ringOutlines(e, extents, contour, i + 1, <<currWorld, nextWorld>>, lines)
            ELSE ringOutlines(e, extents, contour, i + 1, Append(line, nextWorld), lines)

RECURSIVE polygonOutlines(_, _, _, _, _)
polygonOutlines(e, extents, rings, r, lines) ==
    IF r > Len(rings) THEN lines
    ELSE polygonOutlines(e, extents, rings, r + 1,
                         ringOutlines(e, extents, rings[r].contour, 1, <<>>, lines))

\* processPolygonFeature for a line technique, the loop over the polygons.
RECURSIVE outlinePolygons(_, _, _, _, _)
outlinePolygons(e, polygons, p, technique, feature) ==
    IF p > Len(polygons) THEN e
    ELSE
        LET lines == polygonOutlines(e, feature.extents, polygons[p], 1, <<>>)
            applied ==
                applyLineTechnique(e,
                    IF technique.name = "line" THEN "m_simpleLines"
                    ELSE IF technique.name = "solid-line" THEN "m_solidLines"
                    ELSE "m_dashedLines",
                    technique, e.m_gatherFeatureIds,
                    IF technique.name = "line" THEN "Simple" ELSE "Complex",
                    feature.featureId, lines, feature.env, FALSE)
        IN  outlinePolygons(IF lines = <<>> THEN e ELSE applied, polygons, p + 1, technique,
                            feature)

\* processPolygonFeature, the loop over the techniques of the feature.
RECURSIVE processPolygonTechniques(_, _, _, _)
RECURSIVE processPolygonTechniquesNext(_, _, _, _)
processPolygonTechniques(e, feature, i, earcutThrows) ==
    IF i > Len(feature.techniques) THEN [emitter |-> e, threw |-> FALSE]
    ELSE IF feature.techniques[i] = None
        THEN processPolygonTechniques(e, feature, i + 1, earcutThrows)
    ELSE
        LET technique == Get(feature.techniques[i])
            polygons ==
                [p \in 1..Len(feature.geometry) |->
                    [r \in 1..Len(feature.geometry[p].rings) |->
                        Ring(feature.extents,
                             ringContour(feature.geometry[p].rings[r], feature.extents,
                                         getComputeTexCoordsFunc(e, technique)))]]
            isLine == isSolidLineTechnique(technique) \/ isDashedLineTechnique(technique)
                        \/ isLineTechnique(technique)
            isPolygon == isExtrudedPolygonTechnique(technique) \/ isFillTechnique(technique)
                            \/ isStandardTechnique(technique)
        IN  IF isPolygon THEN
                processPolygonTechniquesNext(
                    applyPolygonTechnique(e, polygons, technique, feature.featureId,
                                          feature.env, feature.extents, earcutThrows),
                    feature, i, earcutThrows)
            ELSE IF isLine THEN
                processPolygonTechniques(outlinePolygons(e, polygons, 1, technique, feature),
                                         feature, i + 1, earcutThrows)
            ELSE processPolygonTechniques(e, feature, i + 1, earcutThrows)

processPolygonTechniquesNext(applied, feature, i, earcutThrows) ==
    IF applied.threw THEN applied
    ELSE processPolygonTechniques(applied.emitter, feature, i + 1, earcutThrows)

\* processPolygonFeature(layer, extents, geometry, env, techniques,
\* featureId); threw tells whether an error left the call.
processPolygonFeature(e, feature, earcutThrows) ==
    processPolygonTechniques(processFeatureCommon(e, feature.env), feature, 1, earcutThrows)

\* A Geometry of the decoded tile; an attribute or array it does not have is
\* None.
Geometry(type, positions, groups) ==
    [type |-> type, positions |-> positions, groups |-> groups, normals |-> None,
     colors |-> None, uv |-> None, extrusionAxis |-> None, index |-> None,
     edgeIndex |-> None, featureIds |-> None, featureStarts |-> None, objInfos |-> None]

\* An array as an optional attribute: there when it is not empty.
NonEmpty(array) == IF Len(array) > 0 THEN Some(array) ELSE None

\* The test against the end of the catalog, one place late.
isInvalidTechniqueIndexBeyond(techniques, techniqueIdx) ==
    techniques = None \/ Len(Get(techniques)) < techniqueIdx

\* technique index techniqueIdx of the catalog is beyond its end, or there is
\* no catalog: the test before createGeometries throws.
isInvalidTechniqueIndex(techniques, techniqueIdx) ==
    techniques = None \/ Len(Get(techniques)) <= techniqueIdx

\* techniques[techniqueIdx]: undefined (None) where the array has no such
\* element.
techniqueAt(techniques, techniqueIdx) ==
    IF techniqueIdx + 1 \in DOMAIN techniques THEN Some(techniques[techniqueIdx + 1]) ELSE None

\* createGeometries, the body of the loop over the mesh buffers.
createGeometry(e, meshBuffers, techniqueIdx) ==
    LET techniques == e.m_styleSetEvaluator.techniques
        technique == techniqueAt(Get(techniques), techniqueIdx)
        groups == IF Len(meshBuffers.groups) = 0
                    THEN <<[start |-> 0, count |-> Len(meshBuffers.positions),
                            technique |-> techniqueIdx, featureId |-> None]>>
                  ELSE meshBuffers.groups
        geometry ==
            [Geometry(meshBuffers.type, meshBuffers.positions, groups) EXCEPT
                !.normals = NonEmpty(meshBuffers.normals),
                !.colors = NonEmpty(meshBuffers.colors),
                !.uv = NonEmpty(meshBuffers.textureCoordinates),
                !.extrusionAxis = NonEmpty(meshBuffers.extrusionAxis),
                !.index = NonEmpty(meshBuffers.indices),
                !.edgeIndex = NonEmpty(meshBuffers.edgeIndices),
                !.featureIds =
                    IF e.m_gatherFeatureIds THEN Some(meshBuffers.featureIds) ELSE None,
                !.featureStarts =
                    IF e.m_gatherFeatureIds THEN Some(meshBuffers.featureStarts) ELSE None,
                !.objInfos =
                    IF e.m_gatherFeatureIds THEN Some(meshBuffers.objInfos) ELSE None]
        textGeometry ==
            [positions |-> meshBuffers.positions, texts |-> meshBuffers.texts,
             technique |-> techniqueIdx,
             featureId |-> IF Len(meshBuffers.featureIds) > 0 THEN meshBuffers.featureIds[1]
                           ELSE None,
             stringCatalog |-> meshBuffers.stringCatalog,
             objInfos |-> IF e.m_gatherFeatureIds THEN Some(meshBuffers.objInfos) ELSE None]
        poiGeometry ==
            [positions |-> meshBuffers.positions, texts |-> meshBuffers.texts,
             technique |-> techniqueIdx,
             featureId |-> IF Len(meshBuffers.featureIds) > 0 THEN meshBuffers.featureIds[1]
                           ELSE None,
             stringCatalog |-> meshBuffers.stringCatalog,
             imageTextures |-> meshBuffers.imageTextures,
             objInfos |-> Some(meshBuffers.objInfos)]
    IN  IF Len(meshBuffers.positions) = 0 THEN [emitter |-> e, threw |-> FALSE]
        ELSE IF isInvalidTechniqueIndex(techniques, techniqueIdx)
            THEN [emitter |-> e, threw |-> TRUE]
        ELSE IF technique = None THEN [emitter |-> e, threw |-> FALSE]
        ELSE IF Len(meshBuffers.texts) > 0 /\ isTextTechnique(Get(technique))
            THEN [emitter |-> [e EXCEPT !.m_textGeometries = Append(@, textGeometry)],
                  threw |-> FALSE]
        ELSE IF Len(meshBuffers.texts) > 0 /\ isPoiTechnique(Get(technique))
            THEN [emitter |-> [e EXCEPT !.m_poiGeometries = Append(@, poiGeometry)],
                  threw |-> FALSE]
        ELSE [emitter |-> [e EXCEPT !.m_geometries = Append(@, geometry)], threw |-> FALSE]

\* createGeometries: the mesh buffers in the order they were created in; the
\* first throw ends the loop.
RECURSIVE createGeometriesFrom(_, _)
createGeometriesFrom(e, i) ==
    IF i > Len(e.m_meshBuffers) THEN [emitter |-> e, threw |-> FALSE]
    ELSE LET made == createGeometry(e, e.m_meshBuffers[i].buffers, e.m_meshBuffers[i].index)
         IN  IF made.threw THEN made ELSE createGeometriesFrom(made.emitter, i + 1)

createGeometries(e) == createGeometriesFrom(e, 1)

\* processLines and processSimpleLines: a Geometry for each LinesGeometry.
lineGeometry(e, linesGeometry, type) ==
    [Geometry(type, linesGeometry.lines.vertices,
              <<[start |-> 0, count |-> Len(linesGeometry.lines.indices),
                 technique |-> linesGeometry.technique,
                 renderOrderOffset |-> linesGeometry.renderOrderOffset]>>) EXCEPT
        !.index = Some(linesGeometry.lines.indices),
        !.featureIds = IF e.m_gatherFeatureIds THEN linesGeometry.featureIds ELSE None,
        !.featureStarts = IF e.m_gatherFeatureIds THEN linesGeometry.featureStarts ELSE None]

processLines(e, linesArray) ==
    [e EXCEPT !.m_geometries =
        @ \o [i \in 1..Len(linesArray) |-> lineGeometry(e, linesArray[i], "SolidLine")]]

processSimpleLines(e, linesArray) ==
    [e EXCEPT !.m_geometries =
        @ \o [i \in 1..Len(linesArray) |-> lineGeometry(e, linesArray[i], "Line")]]

\* getDecodedTile(): threw when createGeometries throws "Invalid technique
\* index", and the DecodedTile otherwise.
getDecodedTile(e) ==
    LET created == createGeometries(e)
        simple == processSimpleLines(created.emitter, e.m_simpleLines)
        solid == processLines(simple, e.m_solidLines)
        dashed == processLines(solid, e.m_dashedLines)
        tile == [techniques |-> e.m_styleSetEvaluator.techniques,
                 geometries |-> dashed.m_geometries,
                 textGeometries |-> NonEmpty(dashed.m_textGeometries),
                 poiGeometries |-> NonEmpty(dashed.m_poiGeometries),
                 textPathGeometries |-> NonEmpty(dashed.m_textPathGeometries),
                 copyrightHolderIds |-> NonEmpty(dashed.m_sources)]
    IN  IF created.threw
            THEN [emitter |-> created.emitter, threw |-> TRUE,
                  error |-> "Invalid technique index", decodedTile |-> None]
        ELSE [emitter |-> dashed, threw |-> FALSE, error |-> "", decodedTile |-> Some(tile)]

ProcessPointFeature(feature) ==
    /\ emitter' = processPointFeature(emitter, feature)
    /\ emitted' = Append(emitted, Emitted("point", feature))
    /\ UNCHANGED <<decodedTile, exceptEmitter>>

\* processPolygonFeature with the triangulation throwing at the given rings.
EmittedPolygon(feature, earcutThrows, threw) ==
    [kind |-> "polygon", feature |-> feature, earcutThrows |-> earcutThrows, threw |-> threw]

ProcessPolygonFeature(feature, earcutThrows) ==
    \E done \in {processPolygonFeature(emitter, feature, earcutThrows)} :
    /\ emitter' = done.emitter
    /\ emitted' = Append(emitted, EmittedPolygon(feature, earcutThrows, done.threw))
    /\ UNCHANGED <<decodedTile, exceptEmitter>>

GetDecodedTile ==
    \E got \in {getDecodedTile(emitter)} :
    /\ emitter' = got.emitter
    /\ decodedTile' = Some([threw |-> got.threw, error |-> got.error, tile |-> got.decodedTile])
    /\ UNCHANGED <<emitted, exceptEmitter>>

-----------------------------------------------------------------------------
(* Polygons: fill and extruded-polygon features of a tile, with rings on the
   border of the tile and rings whose triangulation fails *)

MaxPolygonFeatures == 2

PolygonExtents == 8

PolygonDecodeInfo == DecodeInfo(8, 8, 4, 14)

PolygonTechniques ==
    <<[IndexedTechnique("fill", 0) EXCEPT !.lineWidth = Some(1)],
      [IndexedTechnique("extruded-polygon", 1) EXCEPT
            !.lineWidth = Some(1), !.footprint = Some(TRUE), !.defaultHeight = Some(2)],
      [IndexedTechnique("extruded-polygon", 2) EXCEPT
            !.lineWidth = Some(1), !.boundaryWalls = Some(FALSE), !.maxSlope = Some(0),
            !.vertexColors = TRUE],
      IndexedTechnique("solid-line", 3),
      [IndexedTechnique("standard", 4) EXCEPT !.textureCoordinateType = Some("tile-space")]>>

PolygonTechniqueLists ==
    {<<Some(PolygonTechniques[1]), Some(PolygonTechniques[2])>>,
     <<Some(PolygonTechniques[3]), Some(PolygonTechniques[4]), Some(PolygonTechniques[5])>>,
     <<Some(PolygonTechniques[2]), None, Some(PolygonTechniques[3])>>}

Polygon(rings) == [rings |-> rings]

\* The square of the whole tile; a rectangle with a side on the left border
\* and a hole; two outer rings, one reaching beyond the upper border, and a
\* second polygon with a side on the right border.
PolygonGeometries ==
    {<<Polygon(<<<<Point(0, 8), Point(8, 8), Point(8, 0), Point(0, 0)>>>>)>>,
     <<Polygon(<<<<Point(0, 2), Point(6, 2), Point(6, 6), Point(0, 6)>>,
                 <<Point(2, 3), Point(2, 5), Point(4, 5)>>>>)>>,
     <<Polygon(<<<<Point(1, 1), Point(3, 1), Point(3, 3)>>,
                 <<Point(5, -1), Point(7, -1), Point(7, 2)>>>>),
       Polygon(<<<<Point(8, 4), Point(8, 6), Point(6, 5)>>>>)>>}

PolygonEnvs ==
    <<[height |-> JsNumber(3), min_height |-> JsNumber(1)],
      [kind |-> JsString(<<"p", "a", "r", "k">>)]>>

PolygonFeature(geometry, techniques) ==
    [layer |-> "buildings", extents |-> PolygonExtents, geometry |-> geometry,
     env |-> PolygonEnvs[(Len(geometry) % 2) + 1], techniques |-> techniques,
     featureId |-> Some(Len(geometry[1].rings))]

PolygonFeatures ==
    {PolygonFeature(geometry, techniques) :
        geometry \in PolygonGeometries, techniques \in PolygonTechniqueLists}

\* The rings whose triangulation throws: none, the first ring of the first
\* polygon, its second ring, or the first rings of the first two polygons.
EarcutThrows == {{}, {<<1, 1>>}, {<<1, 2>>}, {<<1, 1>>, <<2, 1>>}}

PolygonsInit ==
    /\ emitter \in
        {OmvDecodedTileEmitter(PolygonDecodeInfo, StyleSetEvaluator(Some(PolygonTechniques)),
                               gather, FALSE, ~gather, <<>>) : gather \in BOOLEAN}
    /\ decodedTile = None
    /\ emitted = <<>>
    /\ ExceptEmitterIdle

PolygonsNext ==
    \/ \E feature \in PolygonFeatures, earcutThrows \in EarcutThrows :
        /\ decodedTile = None
        /\ Len(emitted) < MaxPolygonFeatures
        /\ ProcessPolygonFeature(feature, earcutThrows)
    \/ decodedTile = None /\ GetDecodedTile

SpecPolygons == PolygonsInit /\ [][PolygonsNext]_vars

\* The places <<first ring, last ring>> of the outer rings of a polygon with
\* the holes that follow them.
RECURSIVE RingGroups(_, _)
RingGroups(rings, first) ==
    IF first > Len(rings) THEN {}
    ELSE LET last == holesEnd(rings, first + 1, rings[first].winding) - 1
         IN  {<<first, last>>} \cup RingGroups(rings, last + 1)

RECURSIVE SumOver(_, _)
SumOver(set, f) ==
    IF set = {} THEN 0
    ELSE LET x == CHOOSE y \in set : TRUE IN f[x] + SumOver(set \ {x}, f)

\* The vertices of the rings of a feature whose triangulation does not
\* throw.
TriangulatedVertices(feature, earcutThrows) ==
    LET rings(p) == [r \in 1..Len(feature.geometry[p].rings) |->
                        Ring(feature.extents, feature.geometry[p].rings[r])]
        good == {pl \in (1..Len(feature.geometry)) \X ((1..3) \X (1..3)) :
                    /\ pl[2] \in RingGroups(rings(pl[1]), 1)
                    /\ <<pl[1], pl[2][1]>> \notin earcutThrows}
        count == [pl \in good |->
                    LET contours == feature.geometry[pl[1]].rings
                    IN  SumOver((pl[2][1])..(pl[2][2]),
                                [r \in (pl[2][1])..(pl[2][2]) |-> Len(contours[r])])]
    IN  SumOver(good, count)

\* The positions of the mesh buffers of a technique index, none when there
\* are no such buffers.
PositionsOf(e, index) ==
    IF hasMeshBuffers(e, index) THEN Len(getMeshBuffers(e, index).positions) ELSE 0

\* C15: a ring whose triangulation fails does not end the decode:
\* processPolygonFeature returns without an error, every other ring of the
\* feature adds its vertices under every polygon technique of the feature,
\* later features are processed alike, and getDecodedTile gives a DecodedTile
\* with a Geometry for every technique that has vertices.
C15_TriangulationFailureIsLocal ==
    [][/\ emitted' # emitted =>
            LET call == emitted'[Len(emitted')]
                feature == call.feature
            IN  /\ ~call.threw
                /\ \A t \in 1..Len(feature.techniques) :
                    feature.techniques[t] # None
                            /\ Get(feature.techniques[t]).name \in {"fill", "extruded-polygon"} =>
                        LET technique == Get(feature.techniques[t])
                            perVertex == IF technique.name = "fill" THEN 1 ELSE 2
                        IN  PositionsOf(emitter', technique.index)
                                = PositionsOf(emitter, technique.index)
                                    + perVertex * TriangulatedVertices(feature, call.earcutThrows)
       /\ decodedTile' # decodedTile =>
            /\ ~Get(decodedTile').threw
            /\ \A i \in 1..Len(emitter.m_meshBuffers) :
                Len(emitter.m_meshBuffers[i].buffers.positions) > 0 =>
                    \E g \in 1..Len(Get(Get(decodedTile').tile).geometries) :
                        Get(Get(decodedTile').tile).geometries[g].positions
                            = emitter.m_meshBuffers[i].buffers.positions]_vars

\* C15's case: the first ring of a feature failed to triangulate, the
\* feature's other ring and second polygon and a later feature were
\* processed, and the decoded tile has their geometry.
C15_Witness ==
    /\ Len(emitted) = 2
    /\ emitted[1].earcutThrows = {<<1, 1>>}
    /\ Len(emitted[1].feature.geometry) = 2
    /\ emitted[2].earcutThrows = {}
    /\ decodedTile # None
    /\ ~Get(decodedTile).threw
    /\ \E g \in 1..Len(Get(Get(decodedTile).tile).geometries) :
        /\ Get(Get(decodedTile).tile).geometries[g].type = "ExtrudedPolygon"
        /\ Len(Get(Get(decodedTile).tile).geometries[g].positions) >= 12

\* The vertices of a set all lie on or beyond one side of the tile, in world
\* coordinates: left of it, right of it, above it or below it.
AllOnOneSide(vertices, decodeInfo) ==
    LET left == decodeInfo.projectedTileBounds.min.x - decodeInfo.center.x
        right == decodeInfo.projectedTileBounds.max.x - decodeInfo.center.x
        bottom == decodeInfo.projectedTileBounds.min.y - decodeInfo.center.y
        top == decodeInfo.projectedTileBounds.max.y - decodeInfo.center.y
    IN  \/ \A v \in vertices : v.x <= left
        \/ \A v \in vertices : v.x >= right
        \/ \A v \in vertices : v.y >= top
        \/ \A v \in vertices : v.y <= bottom

\* The edges of mesh buffers that run along the ground plan: the pairs of
\* the edge index buffer between vertices at different places of the plan
\* (the others are the vertical edges of an extrusion).
PlanEdges(buffers) ==
    {<<buffers.positions[buffers.edgeIndices[2 * k - 1] + 1],
       buffers.positions[buffers.edgeIndices[2 * k] + 1]>> :
        k \in {n \in 1..(Len(buffers.edgeIndices) \div 2) :
            LET a == buffers.positions[buffers.edgeIndices[2 * n - 1] + 1]
                b == buffers.positions[buffers.edgeIndices[2 * n] + 1]
            IN  a.x # b.x \/ a.y # b.y}}

\* The triangles of the walls of extruded mesh buffers, as sets of vertices:
\* the triangles of the index buffer with a vertex at the foot (an even place
\* of the position buffer; the roof is made of the odd ones).
WallTriangles(buffers) ==
    {{buffers.positions[buffers.indices[3 * k - j] + 1] : j \in 0..2} :
        k \in {n \in 1..(Len(buffers.indices) \div 3) :
            \E j \in 0..2 : buffers.indices[3 * n - j] % 2 = 0}}

\* C19: under a fill or extruded-polygon technique the edge index buffer has
\* no edge along a ring segment on the border of the tile (both ends on or
\* beyond the same side), and the index buffer has a wall along such a
\* segment only when the technique's boundaryWalls is not false.
C19_NoEdgesOnTileBorder ==
    emitter # <<>> =>
        \A i \in 1..Len(emitter.m_meshBuffers) :
            LET buffers == emitter.m_meshBuffers[i].buffers
                technique == PolygonTechniques[emitter.m_meshBuffers[i].index + 1]
            IN  buffers.type \in {"Polygon", "ExtrudedPolygon"} =>
                    /\ \A edge \in PlanEdges(buffers) :
                        ~AllOnOneSide({edge[1], edge[2]}, emitter.m_decodeInfo)
                    /\ buffers.type = "ExtrudedPolygon"
                            /\ technique.boundaryWalls = Some(FALSE) =>
                        \A wall \in WallTriangles(buffers) :
                            ~AllOnOneSide(wall, emitter.m_decodeInfo)

\* C19's case: a rectangle with one side on the left border of the tile and
\* three sides inside it was extruded with and without boundary walls.  Both
\* mesh buffers have edges; the one with boundary walls has a wall on the
\* border, the other has walls and none on the border.
C19_Witness ==
    /\ Len(emitted) = 1
    /\ emitted[1].earcutThrows = {}
    /\ emitted[1].feature.geometry[1].rings[1]
            = <<Point(0, 2), Point(6, 2), Point(6, 6), Point(0, 6)>>
    /\ hasMeshBuffers(emitter, 1) /\ hasMeshBuffers(emitter, 2)
    /\ PlanEdges(getMeshBuffers(emitter, 1)) # {}
    /\ PlanEdges(getMeshBuffers(emitter, 2)) # {}
    /\ \E wall \in WallTriangles(getMeshBuffers(emitter, 1)) :
        AllOnOneSide(wall, emitter.m_decodeInfo)
    /\ WallTriangles(getMeshBuffers(emitter, 2)) # {}
    /\ \A wall \in WallTriangles(getMeshBuffers(emitter, 2)) :
        ~AllOnOneSide(wall, emitter.m_decodeInfo)

-----------------------------------------------------------------------------
(* Tile: point, line and polygon features of a tile whose techniques come from
   a catalog that may be longer than the one of the emitter's style-set
   evaluator, and the DecodedTile made of them *)

MaxTileFeatures == 2

TileTechniques ==
    <<IndexedTechnique("circles", 0),
      IndexedTechnique("text", 1),
      IndexedTechnique("fill", 2),
      [IndexedTechnique("extruded-line", 3) EXCEPT !.lineWidth = Some(1)]>>

\* The catalog of the emitter's evaluator: the one the features were styled
\* with, or a shorter one.
TileCatalogs == {TileTechniques, SubSeq(TileTechniques, 1, 2)}

TileEnv == [name |-> JsString(<<"A">>)]

PointFeature(geometry, techniques) ==
    [layer |-> "places", extents |-> PolygonExtents, geometry |-> geometry, env |-> TileEnv,
     techniques |-> techniques, featureId |-> Some(Len(geometry) + 1)]

\* Point features of no, one and two positions, as circles, as text and
\* (wrongly styled) as a filled polygon.
TilePointFeatures ==
    {PointFeature(geometry, techniques) :
        geometry \in {<<>>, <<Point(1, 1)>>, <<Point(1, 1), Point(3, 2)>>},
        techniques \in {<<Some(TileTechniques[1])>>, <<Some(TileTechniques[2]), None>>,
                        <<Some(TileTechniques[3])>>}}

TileLineFeatures ==
    {LineFeature(PolygonExtents, <<<<Point(0, 0), Point(2, 2)>>, <<Point(4, 4), Point(4, 6)>>>>,
                 TileEnv, <<Some(TileTechniques[4])>>, Some(5))}

TilePolygonFeatures ==
    {[layer |-> "landuse", extents |-> PolygonExtents,
      geometry |-> <<Polygon(<<<<Point(1, 1), Point(3, 1), Point(3, 3)>>>>)>>,
      env |-> TileEnv, techniques |-> <<Some(TileTechniques[3])>>, featureId |-> Some(6)]}

EmitterInit ==
    /\ emitter \in
        {OmvDecodedTileEmitter(PolygonDecodeInfo, StyleSetEvaluator(Some(catalog)), gather,
                               FALSE, FALSE, <<>>) :
            catalog \in TileCatalogs, gather \in BOOLEAN}
    /\ decodedTile = None
    /\ emitted = <<>>
    /\ ExceptEmitterIdle

EmitterNext ==
    \/ \E feature \in TilePointFeatures :
        /\ decodedTile = None
        /\ Len(emitted) < MaxTileFeatures
        /\ ProcessPointFeature(feature)
    \/ \E feature \in TileLineFeatures :
        /\ decodedTile = None
        /\ Len(emitted) < MaxTileFeatures
        /\ ProcessLineFeature(feature)
    \/ \E feature \in TilePolygonFeatures, earcutThrows \in {{}, {<<1, 1>>}} :
        /\ decodedTile = None
        /\ Len(emitted) < MaxTileFeatures
        /\ ProcessPolygonFeature(feature, earcutThrows)
    \/ decodedTile = None /\ GetDecodedTile

SpecTile == EmitterInit /\ [][EmitterNext]_vars

\* getDecodedTile threw "Invalid technique index" and returned no tile.
ThrewInvalidTechniqueIndex ==
    /\ Get(decodedTile).threw
    /\ Get(decodedTile).error = "Invalid technique index"
    /\ Get(decodedTile).tile = None

\* C14 as stated: whenever there is a mesh buffer under a technique index
\* that is not an index of the evaluator's technique catalog, getDecodedTile
\* throws "Invalid technique index" and returns no DecodedTile.
C14_InvalidTechniqueIndexThrows ==
    decodedTile # None =>
        LET techniques == emitter.m_styleSetEvaluator.techniques IN
        (\E i \in 1..Len(emitter.m_meshBuffers) :
            \/ techniques = None
            \/ emitter.m_meshBuffers[i].index \notin 0..(Len(Get(techniques)) - 1))
        => ThrewInvalidTechniqueIndex

\* C14, amended: whenever a mesh buffer that holds at least one position was
\* accumulated under a technique index at or beyond the end of the
\* evaluator's technique catalog, getDecodedTile throws "Invalid technique
\* index" and returns no DecodedTile; it throws in no other case.
C14_InvalidIndexOfFilledBuffersThrows ==
    decodedTile # None =>
        LET techniques == emitter.m_styleSetEvaluator.techniques IN
        (\E i \in 1..Len(emitter.m_meshBuffers) :
            /\ Len(emitter.m_meshBuffers[i].buffers.positions) > 0
            /\ \/ techniques = None
               \/ emitter.m_meshBuffers[i].index >= Len(Get(techniques)))
        <=> ThrewInvalidTechniqueIndex

\* C14's case: mesh buffers with positions under a valid technique index and
\* then under one beyond the catalog, and getDecodedTile threw.
C14_Witness ==
    /\ decodedTile # None
    /\ Get(decodedTile).threw
    /\ Len(emitter.m_meshBuffers) = 2
    /\ emitter.m_meshBuffers[1].index < Len(Get(emitter.m_styleSetEvaluator.techniques))
    /\ emitter.m_meshBuffers[2].index >= Len(Get(emitter.m_styleSetEvaluator.techniques))
    /\ \A i \in 1..2 : Len(emitter.m_meshBuffers[i].buffers.positions) > 0

\* The feature data of a Geometry is parallel: featureIds, featureStarts and
\* objInfos (where there) have one length, and the starts are nondecreasing
\* offsets into the index buffer.
ParallelFeatureData(geometry) ==
    LET indexLength == IF geometry.index = None THEN 0 ELSE Len(Get(geometry.index)) IN
    /\ geometry.featureIds # None
    /\ geometry.featureStarts # None
    /\ Len(Get(geometry.featureIds)) = Len(Get(geometry.featureStarts))
    /\ geometry.objInfos # None =>
            Len(Get(geometry.objInfos)) = Len(Get(geometry.featureIds))
    /\ \A i \in 1..Len(Get(geometry.featureStarts)) :
        /\ Get(geometry.featureStarts)[i] \in 0..indexLength
        /\ i > 1 => Get(geometry.featureStarts)[i - 1] <= Get(geometry.featureStarts)[i]

\* C20: with feature ids gathered, in every Geometry of the DecodedTile
\* featureIds, featureStarts (and objInfos where present) have the same
\* length, featureStarts is nondecreasing and each of its entries is an offset
\* inside the index buffer of the Geometry.
C20_FeatureDataIsParallel ==
    (decodedTile # None /\ emitter.m_gatherFeatureIds /\ ~Get(decodedTile).threw) =>
        \A i \in 1..Len(Get(Get(decodedTile).tile).geometries) :
            ParallelFeatureData(Get(Get(decodedTile).tile).geometries[i])

-----------------------------------------------------------------------------
(* RoadPicker: the road data of a tile and the roads under a picked point *)

MaxPickCalls == 4

\* MAX_DISTANCE_ERROR = 0.01 as a fraction.
MAX_DISTANCE_ERROR == [num |-> 1, den |-> 100]

\* getAttributeValue(technique.lineWidth, level) of a line width that does not
\* depend on the level: the width, undefined (None) where there is none.
getAttributeValue(attribute, level) == attribute

\* Math2D.distToSegmentSquared(px, py, l0x, l0y, l1x, l1y): the squared
\* distance of p to the segment l0 l1, as a fraction.
distToSegmentSquared(px, py, l0x, l0y, l1x, l1y) ==
    LET lineLengthSq == (l1x - l0x) * (l1x - l0x) + (l1y - l0y) * (l1y - l0y)
        along == (px - l0x) * (l1x - l0x) + (py - l0y) * (l1y - l0y)
        toStart == (px - l0x) * (px - l0x) + (py - l0y) * (py - l0y)
        toEnd == (px - l1x) * (px - l1x) + (py - l1y) * (py - l1y)
    IN  IF lineLengthSq = 0 \/ along <= 0 THEN [num |-> toStart, den |-> 1]
        ELSE IF along >= lineLengthSq THEN [num |-> toEnd, den |-> 1]
        ELSE [num |-> toStart * lineLengthSq - along * along, den |-> lineLengthSq]

\* a < b for fractions with positive denominators.
FractionLess(a, b) == a.num * b.den < b.num * a.den

\* Box3.distanceToPoint(point) > MAX_DISTANCE_ERROR: the squared distance of
\* the point to the point of the box nearest to it, against the squared bound.
outsideBoundingBox(box, point) ==
    LET clamp(v, lo, hi) == IF v < lo THEN lo ELSE IF v > hi THEN hi ELSE v
        dx == point.x - clamp(point.x, box.min.x, box.max.x)
        dy == point.y - clamp(point.y, box.min.y, box.max.y)
        dz == point.z - clamp(point.z, box.min.z, box.max.z)
    IN  FractionLess([num |-> MAX_DISTANCE_ERROR.num * MAX_DISTANCE_ERROR.num,
                      den |-> MAX_DISTANCE_ERROR.den * MAX_DISTANCE_ERROR.den],
                     [num |-> dx * dx + dy * dy + dz * dz, den |-> 1])

\* registerTile, the widths of the line features.
roadWidths(lineFeatures, techniqueCatalog, level) ==
    [i \in 1..lineFeatures.numFeatures |->
        LET technique == techniqueCatalog[lineFeatures.techniqueIndex[i] + 1]
            width == getAttributeValue(technique.lineWidth, level)
        IN  IF width # None THEN Max(1, Get(width)) ELSE 1]

\* registerTile(tile) where assert throws on a false condition.
registerTileAsserting(tile) ==
    IF tile.decodedTile = None THEN [threw |-> TRUE, value |-> None]
    ELSE IF Get(tile.decodedTile).tileInfo = None THEN [threw |-> FALSE, value |-> None]
    ELSE
        LET extendedTileInfo == Get(Get(tile.decodedTile).tileInfo)
            lineFeatures == extendedTileInfo.lineGroup
        IN  IF lineFeatures = None \/ Get(lineFeatures).numFeatures = 0
                THEN [threw |-> FALSE, value |-> None]
            ELSE [threw |-> FALSE,
                  value |-> Some([ids |-> Get(lineFeatures).featureIds,
                                  techniqueIndex |-> Get(lineFeatures).techniqueIndex,
                                  starts |-> Get(lineFeatures).positionIndex,
                                  widths |-> roadWidths(Get(lineFeatures),
                                                extendedTileInfo.techniqueCatalog,
                                                tile.tileKey.level),
                                  positions |-> Get(lineFeatures).positions,
                                  techniques |-> extendedTileInfo.techniqueCatalog])]

\* registerTile(tile): assert throws on a false condition, or is compiled
\* out of the build.
registerTile(tile, asserts) ==
    IF tile.decodedTile = None /\ ~asserts THEN [threw |-> FALSE, value |-> None]
    ELSE registerTileAsserting(tile)

\* intersectRoads, the loop over the segments of a feature from position j
\* (of the flat array, 0-based): the smallest squared distance below the
\* squared width, None for Number.MAX_VALUE.
RECURSIVE closestDistSqr(_, _, _, _, _, _, _, _)
closestDistSqr(positions, j, featureEnd, startX, startY, px, py, closest) ==
    IF j >= featureEnd THEN closest.value
    ELSE
        LET endX == positions[j + 1]
            endY == positions[j + 2]
            distSqr == distToSegmentSquared(px, py, startX, startY, endX, endY)
            next == IF /\ FractionLess(distSqr, [num |-> closest.lineWidthSqr, den |-> 1])
                       /\ closest.value = None \/ FractionLess(distSqr, Get(closest.value))
                        THEN [closest EXCEPT !.value = Some(distSqr)]
                    ELSE closest
        IN  closestDistSqr(positions, j + 2, featureEnd, endX, endY, px, py, next)

\* intersectRoads, the loop over the features from feature i (0-based).
RECURSIVE intersectFeatures(_, _, _, _, _, _)
intersectFeatures(data, i, tile, eyePos, pickPos, results) ==
    IF i >= Len(data.ids) THEN results
    ELSE
        LET technique == data.techniques[data.techniqueIndex[i + 1] + 1]
            featureStart == data.starts[i + 1]
            featureEnd == IF i < Len(data.ids) - 1 THEN data.starts[i + 2]
                          ELSE Len(data.positions)
            closest == closestDistSqr(data.positions, featureStart + 2, featureEnd,
                            data.positions[featureStart + 1], data.positions[featureStart + 2],
                            pickPos.x - tile.center.x, pickPos.y - tile.center.y,
                            [lineWidthSqr |-> data.widths[i + 1] * data.widths[i + 1],
                             value |-> None])
            roadPickResult ==
                [type |-> "Line", point |-> pickPos,
                 distanceSquared |-> (pickPos.x - eyePos.x) * (pickPos.x - eyePos.x)
                                        + (pickPos.y - eyePos.y) * (pickPos.y - eyePos.y)
                                        + (pickPos.z - eyePos.z) * (pickPos.z - eyePos.z),
                 distFromCenterSquared |-> Get(closest),
                 featureId |-> data.ids[i + 1],
                 positions |-> SubSeq(data.positions, featureStart + 1, featureEnd),
                 technique |-> technique]
        IN  IF technique.transient THEN
                intersectFeatures(data, i + 1, tile, eyePos, pickPos, results)
            ELSE IF closest # None THEN
                intersectFeatures(data, i + 1, tile, eyePos, pickPos,
                                  Append(results, roadPickResult))
            ELSE intersectFeatures(data, i + 1, tile, eyePos, pickPos, results)

\* intersectRoads(tile, eyePos, pickPos, results): the results array after the
\* call (the call returns false).
intersectRoads(tile, eyePos, pickPos, results) ==
    IF outsideBoundingBox(tile.boundingBox, pickPos) THEN results
    ELSE IF tile.roadIntersectionData = None THEN results
    ELSE intersectFeatures(Get(tile.roadIntersectionData), 0, tile, eyePos, pickPos, results)

RoadTechniques ==
    <<[IndexedTechnique("solid-line", 0) EXCEPT !.lineWidth = Some(2)],
      [IndexedTechnique("solid-line", 1) EXCEPT !.transient = TRUE, !.lineWidth = Some(3)],
      IndexedTechnique("solid-line", 2)>>

\* Three roads of a tile: from (0,0) over (4,0) to (4,4), drawn 2 wide; the
\* same under a transient technique; from (-4,-4) to (-4,4) without a width.
RoadLineGroup ==
    [numFeatures |-> 3, featureIds |-> <<11, 12, 13>>, techniqueIndex |-> <<0, 1, 2>>,
     positionIndex |-> <<0, 6, 12>>,
     positions |-> <<0, 0, 4, 0, 4, 4, 0, 0, 4, 0, 4, 4, -4, -4, -4, 4>>]

NoLineGroup ==
    [numFeatures |-> 0, featureIds |-> <<>>, techniqueIndex |-> <<>>, positionIndex |-> <<>>,
     positions |-> <<>>]

Tile(decoded) ==
    [tileKey |-> [level |-> 14], decodedTile |-> decoded, roadIntersectionData |-> None,
     center |-> Vertex(10, 10, 0),
     boundingBox |-> [min |-> Vertex(5, 5, 0), max |-> Vertex(15, 15, 0)]]

\* A tile that is not decoded; decoded tiles without tile info, without a line
\* group, with an empty line group and with roads.
RoadTiles ==
    {Tile(None),
     Tile(Some([tileInfo |-> None])),
     Tile(Some([tileInfo |-> Some([lineGroup |-> None, techniqueCatalog |-> RoadTechniques])])),
     Tile(Some([tileInfo |-> Some([lineGroup |-> Some(NoLineGroup),
                                   techniqueCatalog |-> RoadTechniques])])),
     Tile(Some([tileInfo |-> Some([lineGroup |-> Some(RoadLineGroup),
                                   techniqueCatalog |-> RoadTechniques])]))}

\* Picked points: on the first two roads, one unit off them, near the third
\* road, away from all roads, outside of the tile.
PickPositions ==
    {Vertex(12, 10, 0), Vertex(13, 11, 0), Vertex(6, 9, 0), Vertex(8, 14, 0), Vertex(20, 10, 0)}

EyePosition == Vertex(10, 10, 9)

PickInit ==
    /\ roadTile \in {Some(tile) : tile \in RoadTiles}
    /\ pickResults = <<>>
    /\ pickCalls = <<>>
    /\ ExceptPickIdle

Picked(op, tile, threw, value, appended) ==
    [op |-> op, tile |-> tile, threw |-> threw, value |-> value, appended |-> appended]

\* registerTile(tile); the Tile keeps what it returns as its
\* roadIntersectionData.
RegisterTileWith(asserts) ==
    LET registered == registerTile(Get(roadTile), asserts) IN
    /\ Len(pickCalls) < MaxPickCalls
    /\ pickCalls' = Append(pickCalls, Picked("registerTile", Get(roadTile), registered.threw,
                                             registered.value, 0))
    /\ roadTile' = IF registered.threw THEN roadTile
                   ELSE Some([Get(roadTile) EXCEPT !.roadIntersectionData = registered.value])
    /\ UNCHANGED <<pickResults, exceptPick>>

\* registerTile of a decoded tile, or in a build without assertions.
RegisterTile == RegisterTileWith(FALSE)

\* registerTile of a tile that is not decoded, in a build with assertions.
RegisterTileAssertFails ==
    /\ Get(roadTile).decodedTile = None
    /\ RegisterTileWith(TRUE)

IntersectRoads(pickPos) ==
    LET results == intersectRoads(Get(roadTile), EyePosition, pickPos, pickResults) IN
    /\ Len(pickCalls) < MaxPickCalls
    /\ pickResults' = results
    /\ pickCalls' = Append(pickCalls, Picked("intersectRoads", Get(roadTile), FALSE, None,
                                             Len(results) - Len(pickResults)))
    /\ UNCHANGED <<roadTile, exceptPick>>

PickNext ==
    \/ RegisterTile
    \/ RegisterTileAssertFails
    \/ \E pickPos \in PickPositions : IntersectRoads(pickPos)

SpecPick == PickInit /\ [][PickNext]_vars

\* The tile has no decoded tile, no tile info or no line features.
WithoutRoadData(tile) ==
    \/ tile.decodedTile = None
    \/ Get(tile.decodedTile).tileInfo = None
    \/ Get(Get(tile.decodedTile).tileInfo).lineGroup = None
    \/ Get(Get(Get(tile.decodedTile).tileInfo).lineGroup).numFeatures = 0

\* C16: registerTile returns undefined and does not throw for every tile
\* without a decoded tile, without tile info or without line features, and
\* intersectRoads on a tile without road-intersection data appends nothing to
\* the results.
C16_NoRoadDataIsNoHit ==
    \A i \in 1..Len(pickCalls) :
        /\ pickCalls[i].op = "registerTile" /\ WithoutRoadData(pickCalls[i].tile) =>
            ~pickCalls[i].threw /\ pickCalls[i].value = None
        /\ pickCalls[i].op = "intersectRoads" /\ pickCalls[i].tile.roadIntersectionData = None =>
            pickCalls[i].appended = 0

-----------------------------------------------------------------------------
(* TextElementBuilder: what withTechnique and withIcon leave in the builder,
   and the TextElements built from it *)

MaxBuilds == 2

\* A text technique, and a marker technique (labeled-icon or line-marker) with
\* the zoom ranges of its icon and of its text.
BuilderTextTechnique(priority, mayOverlap, reserveSpace, minZoomLevel, maxZoomLevel) ==
    [name |-> "text", priority |-> priority, mayOverlap |-> mayOverlap,
     reserveSpace |-> reserveSpace, minZoomLevel |-> minZoomLevel,
     maxZoomLevel |-> maxZoomLevel]

BuilderMarkerTechnique(name, priority, textMayOverlap, textReserveSpace, zoomLevels) ==
    [name |-> name, priority |-> priority, textMayOverlap |-> textMayOverlap,
     textReserveSpace |-> textReserveSpace,
     iconMinZoomLevel |-> zoomLevels[1], textMinZoomLevel |-> zoomLevels[2],
     iconMaxZoomLevel |-> zoomLevels[3], textMaxZoomLevel |-> zoomLevels[4]]

\* new TextElementBuilder(env, styleCache, baseRenderOrder)
TextElementBuilder ==
    [m_priority |-> 0, m_mayOverlap |-> FALSE, m_reserveSpace |-> TRUE,
     m_minZoomLevel |-> None, m_maxZoomLevel |-> None,
     m_imageTextureName |-> None, m_shieldGroupIndex |-> None]

\* The zoom range of a marker as the intersection of the ranges of its icon
\* and of its text.
alignZoomLevelRangesInner(b, technique) ==
    [b EXCEPT
        !.m_minZoomLevel = Some(Max(technique.iconMinZoomLevel, technique.textMinZoomLevel)),
        !.m_maxZoomLevel = Some(Min(technique.iconMaxZoomLevel, technique.textMaxZoomLevel))]

\* The zoom range of a marker: the union of the ranges of its icon and of its
\* text, min of mins and max of maxes.
alignZoomLevelRanges(b, technique) ==
    [b EXCEPT
        !.m_minZoomLevel = Some(Min(technique.iconMinZoomLevel, technique.textMinZoomLevel)),
        !.m_maxZoomLevel = Some(Max(technique.iconMaxZoomLevel, technique.textMaxZoomLevel))]

\* withTechnique(technique): the attributes shared by the elements built from
\* now on; the icon is to be configured anew.
withTechnique(b, technique) ==
    LET shared == [b EXCEPT !.m_priority = technique.priority,
                            !.m_imageTextureName = None, !.m_shieldGroupIndex = None]
    IN  IF technique.name = "text"
            THEN [shared EXCEPT !.m_mayOverlap = technique.mayOverlap,
                                !.m_reserveSpace = technique.reserveSpace,
                                !.m_minZoomLevel = Some(technique.minZoomLevel),
                                !.m_maxZoomLevel = Some(technique.maxZoomLevel)]
        ELSE alignZoomLevelRanges([shared EXCEPT !.m_mayOverlap = technique.textMayOverlap,
                                                 !.m_reserveSpace = technique.textReserveSpace],
                                  technique)

\* withIcon(imageTextureName, shieldGroupIndex)
withIcon(b, imageTextureName, shieldGroupIndex) ==
    [b EXCEPT !.m_imageTextureName = imageTextureName,
              !.m_shieldGroupIndex = shieldGroupIndex]

\* The TextElement of build(text, position, tileOffset); no PoiInfo without an
\* image texture name.
TextElement(b, text, position) ==
    [text |-> text, position |-> position, priority |-> b.m_priority,
     mayOverlap |-> b.m_mayOverlap, reserveSpace |-> b.m_reserveSpace,
     minZoomLevel |-> b.m_minZoomLevel, maxZoomLevel |-> b.m_maxZoomLevel,
     poiInfo |-> IF b.m_imageTextureName = None THEN None
                 ELSE Some([imageTextureName |-> Get(b.m_imageTextureName),
                            shieldGroupIndex |-> b.m_shieldGroupIndex])]

\* A build that uses the icon up.
buildIconOnce(b, text, position) ==
    [builder |-> withIcon(b, None, None), element |-> TextElement(b, text, position)]

\* build(text, position, tileOffset): the element, and the builder as it was.
build(b, text, position) ==
    [builder |-> b, element |-> TextElement(b, text, position)]

\* The levels a zoom range starts at and ends at; a range may be empty.
BuilderMinZoomLevels == {3, 5, 17}

BuilderMaxZoomLevels == {3, 15, 17}

\* Text techniques, and marker techniques with every combination of the four
\* zoom levels.
BuilderTechniques ==
    {BuilderTextTechnique(42, FALSE, TRUE, 3, 17), BuilderTextTechnique(7, TRUE, FALSE, 5, 15),
     BuilderMarkerTechnique("line-marker", 1, FALSE, TRUE, <<5, 3, 17, 15>>)}
    \cup {BuilderMarkerTechnique("labeled-icon", 42, TRUE, FALSE, zoomLevels) :
            zoomLevels \in BuilderMinZoomLevels \X BuilderMinZoomLevels
                                \X BuilderMaxZoomLevels \X BuilderMaxZoomLevels}

\* The icons of withIcon: a name with and without a shield group index, and
\* no name.
BuilderIcons ==
    {[imageTextureName |-> Some("dummy"), shieldGroupIndex |-> Some(42)],
     [imageTextureName |-> Some("shield"), shieldGroupIndex |-> None],
     [imageTextureName |-> None, shieldGroupIndex |-> None]}

BuilderTexts == {"one", "two"}

BuilderPositions == {Vertex(0, 0, 0), Vertex(1, 2, 0)}

\* The calls on the builder: the technique and the icon it was configured
\* with last, and the elements built since.
BuilderCalls(technique, icon, built) == [technique |-> technique, icon |-> icon, built |-> built]

BuilderInit ==
    /\ builder = Some(TextElementBuilder)
    /\ builderCalls = Some(BuilderCalls(None, None, <<>>))
    /\ ExceptBuilderIdle

WithTechnique(technique) ==
    /\ builder' = Some(withTechnique(Get(builder), technique))
    /\ builderCalls' = Some(BuilderCalls(Some(technique), None, <<>>))
    /\ UNCHANGED exceptBuilder

WithIcon(icon) ==
    /\ Get(builderCalls).technique # None
    /\ builder' = Some(withIcon(Get(builder), icon.imageTextureName, icon.shieldGroupIndex))
    /\ builderCalls' = Some([Get(builderCalls) EXCEPT !.icon = Some(icon), !.built = <<>>])
    /\ UNCHANGED exceptBuilder

Build(text, position) ==
    LET made == build(Get(builder), text, position) IN
    /\ Get(builderCalls).technique # None
    /\ Len(Get(builderCalls).built) < MaxBuilds
    /\ builder' = Some(made.builder)
    /\ builderCalls' = Some([Get(builderCalls) EXCEPT !.built = Append(@, made.element)])
    /\ UNCHANGED exceptBuilder

BuilderNext ==
    \/ \E technique \in BuilderTechniques : WithTechnique(technique)
    \/ \E icon \in BuilderIcons : WithIcon(icon)
    \/ \E text \in BuilderTexts, position \in BuilderPositions : Build(text, position)

SpecBuilder == BuilderInit /\ [][BuilderNext]_vars

\* What two elements of one configuration share: everything but the text and
\* the position.
SharedAttributes(element) ==
    <<element.priority, element.mayOverlap, element.reserveSpace, element.minZoomLevel,
      element.maxZoomLevel, element.poiInfo>>

\* C17: the elements built after withTechnique(t) and withIcon(name,
\* shieldGroupIndex), up to the next withTechnique or withIcon, have the
\* priority of t, and all of them the same overlap and reserve-space flags,
\* zoom range, and poiInfo image name and shield group index as configured.
C17_BuilderStatePersists ==
    (builderCalls # None /\ Get(builderCalls).technique # None) =>
        LET called == Get(builderCalls) IN
        \A i \in 1..Len(called.built) :
            /\ called.built[i].priority = Get(called.technique).priority
            /\ SharedAttributes(called.built[i]) = SharedAttributes(called.built[1])
            /\ (called.icon # None /\ Get(called.icon).imageTextureName # None) =>
                called.built[i].poiInfo
                    = Some([imageTextureName |-> Get(Get(called.icon).imageTextureName),
                            shieldGroupIndex |-> Get(called.icon).shieldGroupIndex])

\* C17's case: two elements of different text and position built after
\* withTechnique of a marker technique and withIcon of a name and a group.
C17_Witness ==
    /\ builderCalls # None
    /\ Get(builderCalls).technique # None
    /\ Get(Get(builderCalls).technique).name = "labeled-icon"
    /\ Get(builderCalls).icon # None
    /\ Get(Get(builderCalls).icon).imageTextureName = Some("dummy")
    /\ Len(Get(builderCalls).built) = 2
    /\ Get(builderCalls).built[1].text # Get(builderCalls).built[2].text
    /\ Get(builderCalls).built[1].position # Get(builderCalls).built[2].position

\* C18: an element built for a marker technique has the union of the zoom
\* ranges of the icon and of the text: minZoomLevel is the smaller of the two
\* min levels and maxZoomLevel the greater of the two max levels.
C18_ZoomRangeIsUnion ==
    (builderCalls # None /\ Get(builderCalls).technique # None) =>
        LET technique == Get(Get(builderCalls).technique) IN
        technique.name = "labeled-icon" =>
            \A i \in 1..Len(Get(builderCalls).built) :
                LET element == Get(builderCalls).built[i] IN
                /\ element.minZoomLevel # None /\ element.maxZoomLevel # None
                /\ Get(element.minZoomLevel) <= technique.iconMinZoomLevel
                /\ Get(element.minZoomLevel) <= technique.textMinZoomLevel
                /\ Get(element.minZoomLevel)
                        \in {technique.iconMinZoomLevel, technique.textMinZoomLevel}
                /\ Get(element.maxZoomLevel) >= technique.iconMaxZoomLevel
                /\ Get(element.maxZoomLevel) >= technique.textMaxZoomLevel
                /\ Get(element.maxZoomLevel)
                        \in {technique.iconMaxZoomLevel, technique.textMaxZoomLevel}

\* C18's case: an element built for a marker whose icon is shown from level
\* 5 to 17 and whose text from level 3 to 15.
C18_Witness ==
    /\ builderCalls # None
    /\ Get(builderCalls).technique # None
    /\ Get(Get(builderCalls).technique).name = "labeled-icon"
    /\ Get(Get(builderCalls).technique).iconMinZoomLevel = 5
    /\ Get(Get(builderCalls).technique).textMinZoomLevel = 3
    /\ Get(Get(builderCalls).technique).iconMaxZoomLevel = 17
    /\ Get(Get(builderCalls).technique).textMaxZoomLevel = 15
    /\ Len(Get(builderCalls).built) > 0
    /\ Get(builderCalls).built[1].minZoomLevel = Some(3)
    /\ Get(builderCalls).built[1].maxZoomLevel = Some(17)

-----------------------------------------------------------------------------
(* Texture coordinates of polygons *)

\* The coordinates of the rings of a feature from ring r of polygon p on, in
\* the order of the geometry, without the rings whose triangulation throws
\* (an outer ring that throws takes its holes with it).
RECURSIVE RingPoints(_, _, _, _)
RingPoints(feature, earcutThrows, p, r) ==
    IF p > Len(feature.geometry) THEN <<>>
    ELSE IF r > Len(feature.geometry[p].rings) THEN RingPoints(feature, earcutThrows, p + 1, 1)
    ELSE
        LET rings == [i \in 1..Len(feature.geometry[p].rings) |->
                        Ring(feature.extents, feature.geometry[p].rings[i])]
            kept == \E g \in RingGroups(rings, 1) :
                        g[1] <= r /\ r <= g[2] /\ <<p, g[1]>> \notin earcutThrows
        IN  (IF kept THEN feature.geometry[p].rings[r] ELSE <<>>)
                \o RingPoints(feature, earcutThrows, p, r + 1)

\* The buffers of a technique index, empty ones when there are none yet.
BuffersOf(e, index) ==
    IF hasMeshBuffers(e, index) THEN getMeshBuffers(e, index) ELSE MeshBuffers("Polygon")

\* A fraction has the value n / d.
FractionIs(f, n, d) == f.num * d = n * f.den

\* after continues before by one entry per point.
OnePerPoint(before, after, points) ==
    /\ Len(after) = Len(before) + Len(points)
    /\ SubSeq(after, 1, Len(before)) = before

-----------------------------------------------------------------------------
(* willEventually: a closure repeated on a timer until it passes without an
   AssertionError, and the Mocha hooks that tell it which test is running *)

\* The Mocha tests, in the order the runner takes them.
MochaTests == {1, 2}

MaxWaits == 1

MaxIterations == 2

\* The closures handed to willEventually: both throw an AssertionError while
\* the work they wait for is not done; after it the first returns a value and
\* the second throws an Error of another kind.
Closures == {"value", "error"}

\* An Error: its constructor's name, the invocation that threw it, and
\* whether the afterEach hook has rewritten its message.
Error(constructorName, wait, invocation) ==
    [constructorName |-> constructorName, wait |-> wait, invocation |-> invocation,
     rewritten |-> FALSE]

\* test(): what the closure of a wait does at one invocation.
test(closure, wait, invocation, isReady) ==
    IF ~isReady THEN [threw |-> Some(Error("AssertionError", wait, invocation)), r |-> None]
    ELSE IF closure = "error"
        THEN [threw |-> Some(Error("Error", wait, invocation)), r |-> None]
    ELSE [threw |-> None, r |-> Some(invocation)]

\* An iteration that does not look at the Mocha test.
stillRunningUnchecked(currentTest, current, states) == TRUE

\* The guard of iteration, negated: the test that called willEventually is
\* still Mocha's current test and has no state yet.
stillRunning(currentTest, current, states) ==
    ~(currentTest # current \/ (currentTest # None /\ states[Get(currentTest)] # None))

\* reportWillEventuallyBlockingAssertion(): the module's variables after it,
\* and what it throws.
reportWillEventuallyBlockingAssertion(lastError) ==
    [mochaCurrentTest |-> None,
     lastWaitedError |-> None,
     tmp |-> IF lastError # None THEN Some([Get(lastError) EXCEPT !.rewritten = TRUE])
             ELSE None,
     threw |-> None]

WillInit ==
    /\ lastWaitedError = None
    /\ afterHandlerInstalled = FALSE
    /\ mochaCurrentTest = None
    /\ testState = [t \in MochaTests |-> None]
    /\ runner = [test |-> 0, phase |-> "hooked"]
    /\ waits = <<>>
    /\ ready = FALSE
    /\ hookCalls = <<>>
    /\ ExceptWillIdle

\* The beforeEach hook of the module, run by Mocha before the next test.
BeforeEach ==
    /\ runner.phase = "hooked"
    /\ runner.test + 1 \in MochaTests
    /\ mochaCurrentTest' = Some(runner.test + 1)
    /\ runner' = [test |-> runner.test + 1, phase |-> "running"]
    /\ UNCHANGED <<lastWaitedError, afterHandlerInstalled, testState, waits, ready, hookCalls,
                   exceptWill>>

\* Mocha ends the running test: it passed, or it failed (by an error or a
\* timeout).
EndTest(state) ==
    /\ runner.phase = "running"
    /\ testState' = [testState EXCEPT ![runner.test] = Some(state)]
    /\ runner' = [runner EXCEPT !.phase = "ended"]
    /\ UNCHANGED <<lastWaitedError, afterHandlerInstalled, mochaCurrentTest, waits, ready,
                   hookCalls, exceptWill>>

\* Mocha runs the afterEach hooks of the test that ended:
\* reportWillEventuallyBlockingAssertion where willEventually installed it.
AfterEach ==
    /\ runner.phase = "ended"
    /\ runner' = [runner EXCEPT !.phase = "hooked"]
    /\ IF afterHandlerInstalled
        THEN \E done \in {reportWillEventuallyBlockingAssertion(lastWaitedError)} :
                /\ mochaCurrentTest' = done.mochaCurrentTest
                /\ lastWaitedError' = done.lastWaitedError
                /\ hookCalls' = Append(hookCalls,
                        [test |-> runner.test, blocked |-> lastWaitedError,
                         tmp |-> done.tmp, threw |-> done.threw])
        ELSE UNCHANGED <<mochaCurrentTest, lastWaitedError, hookCalls>>
    /\ UNCHANGED <<afterHandlerInstalled, testState, waits, ready, exceptWill>>

\* willEventually(test), up to the return of the promise.
WillEventually(closure) ==
    /\ Len(waits) < MaxWaits
    /\ lastWaitedError' = None
    /\ afterHandlerInstalled' = TRUE
    /\ waits' = Append(waits,
            [currentTest |-> mochaCurrentTest, closure |-> closure, promise |-> "pending",
             settled |-> None, timer |-> TRUE, invocations |-> <<>>])
    /\ UNCHANGED <<mochaCurrentTest, testState, runner, ready, hookCalls, exceptWill>>

\* One invocation of test, as the history keeps it: what it did and whether
\* it came after the promise was settled, or after the Mocha test of the
\* wait had ended or was no longer the current one.
Invocation(wait, outcome) ==
    [outcome |-> outcome,
     late |-> \/ wait.promise # "pending"
              \/ wait.currentTest # mochaCurrentTest
              \/ wait.currentTest # None /\ testState[Get(wait.currentTest)] # None]

\* iteration(), run by the timer of wait i.
Iteration(i) ==
    /\ i <= Len(waits)
    /\ waits[i].timer
    /\ IF ~stillRunning(waits[i].currentTest, mochaCurrentTest, testState)
        THEN /\ waits' = [waits EXCEPT ![i].timer = FALSE]
             /\ UNCHANGED lastWaitedError
        ELSE \E done \in {test(waits[i].closure, i, Len(waits[i].invocations) + 1, ready)} :
            IF done.threw = None THEN
                /\ lastWaitedError' = None
                /\ waits' = [waits EXCEPT
                        ![i].invocations = Append(@, Invocation(waits[i], "returned")),
                        ![i].promise = "resolved", ![i].settled = done.r, ![i].timer = FALSE]
            ELSE IF Get(done.threw).constructorName = "AssertionError" THEN
                /\ Len(waits[i].invocations) < MaxIterations
                /\ lastWaitedError' = done.threw
                /\ waits' = [waits EXCEPT
                        ![i].invocations = Append(@, Invocation(waits[i], "AssertionError")),
                        ![i].timer = TRUE]
            ELSE
                /\ lastWaitedError' = None
                /\ waits' = [waits EXCEPT
                        ![i].invocations = Append(@, Invocation(waits[i], "Error")),
                        ![i].promise = "rejected", ![i].settled = done.threw,
                        ![i].timer = FALSE]
    /\ UNCHANGED <<afterHandlerInstalled, mochaCurrentTest, testState, runner, ready, hookCalls,
                   exceptWill>>

\* The asynchronous work the closures wait for gets done.
BecomeReady ==
    /\ ~ready
    /\ ready' = TRUE
    /\ UNCHANGED <<lastWaitedError, afterHandlerInstalled, mochaCurrentTest, testState, runner,
                   waits, hookCalls, exceptWill>>

WillNext ==
    \/ BeforeEach
    \/ \E state \in {"passed", "failed"} : EndTest(state)
    \/ AfterEach
    \/ \E closure \in Closures : WillEventually(closure)
    \/ \E i \in 1..MaxWaits : Iteration(i)
    \/ BecomeReady

SpecWill == WillInit /\ [][WillNext]_vars

\* The timers fire: an iteration that stays scheduled is run.
SpecWillFair == SpecWill /\ \A i \in 1..MaxWaits : WF_vars(Iteration(i))

\* C22: whenever the afterEach hook runs while an AssertionError still blocks
\* a willEventually call, the hook throws that error.
C22_HookRethrowsBlockingAssertion ==
    \A h \in 1..Len(hookCalls) :
        hookCalls[h].blocked # None =>
            /\ hookCalls[h].threw # None
            /\ Get(hookCalls[h].threw).wait = Get(hookCalls[h].blocked).wait
            /\ Get(hookCalls[h].threw).invocation = Get(hookCalls[h].blocked).invocation

\* The Mocha test that called willEventually for a wait is still running: it
\* is Mocha's current test and has not ended.
MochaTestRunning(wait) ==
    /\ wait.currentTest # None
    /\ wait.currentTest = mochaCurrentTest
    /\ testState[Get(wait.currentTest)] = None

\* What C25 says of the invocations and of the promise of one wait.
InvokedAsPromised(wait) ==
    LET n == Len(wait.invocations) IN
    /\ \A k \in 2..n : wait.invocations[k - 1].outcome = "AssertionError"
    /\ wait.timer /\ n > 0 => wait.invocations[n].outcome = "AssertionError"
    /\ wait.promise = "resolved" <=> n > 0 /\ wait.invocations[n].outcome = "returned"
    /\ wait.promise = "resolved" => wait.settled = Some(n)
    /\ wait.promise = "rejected" <=> n > 0 /\ wait.invocations[n].outcome = "Error"
    /\ wait.promise = "rejected" =>
            /\ Get(wait.settled).constructorName # "AssertionError"
            /\ Get(wait.settled).invocation = n
    /\ wait.promise # "pending" => ~wait.timer
    /\ \A k \in 1..n : ~wait.invocations[k].late

\* C25: willEventually invokes test again only after an AssertionError of
\* the invocation before; the promise is resolved with the value of the
\* first invocation that returns and rejected with the first error of
\* another kind; test is not invoked once the promise is settled or the
\* Mocha test of the call has ended or is no longer the current one; and
\* when test stops throwing for good while that Mocha test keeps running,
\* the promise is eventually resolved.
C25_RepeatsUntilPassedOrAborted ==
    /\ [](\A i \in 1..Len(waits) : InvokedAsPromised(waits[i]))
    /\ \A i \in 1..MaxWaits :
        <>[](/\ i <= Len(waits)
             /\ ready
             /\ waits[i].closure = "value"
             /\ MochaTestRunning(waits[i]))
            => <>(i <= Len(waits) /\ waits[i].promise = "resolved")

\* C25's case: a closure was invoked again after each of its two
\* AssertionErrors, its promise resolved with the value of the third
\* invocation, and the Mocha test that waited for it has ended since.
C25_Witness ==
    /\ Len(waits) = 1
    /\ Len(waits[1].invocations) = 3
    /\ waits[1].invocations[2].outcome = "AssertionError"
    /\ waits[1].promise = "resolved"
    /\ waits[1].settled = Some(3)
    /\ waits[1].currentTest = Some(1)
    /\ testState[1] = Some("passed")

-----------------------------------------------------------------------------
(* A tile of one object under every kind of zoom range and `enabled` *)

StyleZoomLevels == {1, 2, 3}

\* technique.minZoomLevel and technique.maxZoomLevel: missing, a number, NaN,
\* or a string.
MinZoomLevels == {JsUndefined, JsNumber(2), JsNaN, JsString(<<"2">>)}

MaxZoomLevels == {JsUndefined, JsNumber(2), JsNumber(3), JsNaN, JsString(<<"3">>)}

StyleEnableds ==
    {None, Some(StaticEnabled(TRUE)), Some(StaticEnabled(FALSE)),
     Some(ExprEnabled("state.enabled")), Some(ExprEnabled("state.enabled != false"))}

\* No feature data, or the data of two features.
StyleFeatures == {None, Some([starts |-> Some(<<0, 2>>), objInfos |-> Some(<<1, 2>>)])}

\* The geometry of the object as the tile was built: one group over all of
\* its 4 indices.
StyleGeometry == [BufferGeometry(Some(4), 9) EXCEPT !.groups = <<[start |-> 0, count |-> 4]>>]

StyleObjects ==
    {TileObject(TRUE, Some(0), TRUE, Some(Technique(minZoomLevel, maxZoomLevel, enabled)),
                feature, Some(StyleGeometry), None, None) :
        minZoomLevel \in MinZoomLevels, maxZoomLevel \in MaxZoomLevels,
        enabled \in StyleEnableds, feature \in StyleFeatures}
    \cup {TileObject(TRUE, Some(0), TRUE, None, None, Some(StyleGeometry), None, None)}

StylesInit ==
    /\ objects \in {<<object>> : object \in StyleObjects}
    /\ m_featureStateMap = EmptyMap
    /\ TileInit

StylesNext ==
    \/ \E willRender \in BOOLEAN, zoomLevel \in StyleZoomLevels : Render(willRender, zoomLevel, 1)
    \/ \E featureId \in TileFeatureIds, state \in ValueMaps :
            TileSetFeatureState(featureId, state)
    \/ TileClearFeatureState

SpecStyles == StylesInit /\ [][StylesNext]_vars

\* The zoom level is below a numeric lower bound; it is at or above a numeric
\* upper bound.  A comparison with NaN is false.
BelowMinZoomLevel(technique, zoomLevel) ==
    /\ technique.minZoomLevel.type = "number"
    /\ ~technique.minZoomLevel.nan
    /\ zoomLevel < technique.minZoomLevel.num

AtOrAboveMaxZoomLevel(technique, zoomLevel) ==
    /\ technique.maxZoomLevel.type = "number"
    /\ ~technique.maxZoomLevel.nan
    /\ zoomLevel >= technique.maxZoomLevel.num

\* C23: the zoom range of a technique is the half-open [minZoomLevel,
\* maxZoomLevel): a rendered tile leaves out every object whose zoom level is
\* below a numeric minZoomLevel or at or above a numeric maxZoomLevel, and
\* an object that nothing else can exclude (its technique has no `enabled`)
\* is left out in these cases only; a bound that is missing or not a number
\* excludes nothing.
C23_ZoomRangeIsHalfOpen ==
    (lastRender.called /\ lastRender.willRender /\ objects[1].technique # None) =>
        LET technique == Get(objects[1].technique)
            outOfRange == \/ BelowMinZoomLevel(technique, lastRender.zoomLevel)
                          \/ AtOrAboveMaxZoomLevel(technique, lastRender.zoomLevel)
        IN  /\ outOfRange => 1 \notin lastRender.added
            /\ technique.enabled = None => (1 \in lastRender.added <=> ~outOfRange)

\* C23's case: a technique with the range [2, 3) rendered at zoom level 3:
\* its object is left out, the upper bound itself being outside the range.
C23_Witness ==
    /\ lastRender.called /\ lastRender.willRender
    /\ lastRender.zoomLevel = 3
    /\ objects[1].technique # None
    /\ Get(objects[1].technique).minZoomLevel = JsNumber(2)
    /\ Get(objects[1].technique).maxZoomLevel = JsNumber(3)
    /\ Get(objects[1].technique).enabled = None
    /\ lastRender.added = {}

\* What C24 tells apart: the technique's `enabled` is a plain value; it is an
\* expression and the object has feature data.
PlainEnabled(object) ==
    /\ object.technique # None
    /\ Get(object.technique).enabled # None
    /\ ~Get(Get(object.technique).enabled).isExpr

ExprEnabledWithFeatures(object) ==
    /\ object.technique # None
    /\ Get(object.technique).enabled # None
    /\ Get(Get(object.technique).enabled).isExpr
    /\ object.feature # None

-----------------------------------------------------------------------------
(* The opaque sort as an ordering of a render list *)

\* A third item of the render list: another object, its program and material
\* shared with one of the first two.
ThirdItems == {[item EXCEPT !.id = 3] : item \in RenderItems}

\* sign(cmp(a, b)) = -sign(cmp(b, a)) for the two items compared.
Antisymmetric == Sign(sAB) = 0 - Sign(sBA)

\* cmp(a, b) < 0 and cmp(b, c) < 0 imply cmp(a, c) < 0, for every third item.
Transitive ==
    \A c \in ThirdItems :
        sAB < 0 /\ painterSortStable(sB, c) < 0 => painterSortStable(sA, c) < 0

\* C26: the installed comparator is a consistent ordering of every three
\* items of a render list: antisymmetric on the two items compared, and
\* transitive with every third item, buildings, levels and the ground render
\* order included.
C26_ConsistentOrdering == sPc = "compared" => Antisymmetric /\ Transitive

-----------------------------------------------------------------------------
(* addEdges and addWalls, one loop turn at a time *)

MinRingLength == 3

MaxRingLength == 4

MaxHoleLength == 3

\* What applyPolygonTechnique has found for the segments of a ring, from each
\* vertex to the next: TRUE for a segment inside the extents of the tile.
SegmentRings(maxLength) ==
    UNION {[1..n -> BOOLEAN] : n \in MinRingLength..maxLength}

\* An outer ring alone, or with a hole.
Footprints ==
    {<<outer>> : outer \in SegmentRings(MaxRingLength)}
    \cup {<<outer, hole>> :
            outer \in SegmentRings(MaxRingLength), hole \in SegmentRings(MaxHoleLength)}

\* vertices.push(insideExtents ? vertexOffset + nextIdx : -1,
\*               boundaryWalls || insideExtents ? vertexOffset + nextIdx : -1)
taggedRing(inside, boundaryWalls, vertexOffset) ==
    [i \in 1..Len(inside) |->
        LET nextIdx == i % Len(inside)
        IN  [edge |-> IF inside[i] THEN vertexOffset + nextIdx ELSE -1,
             wall |-> IF boundaryWalls \/ inside[i] THEN vertexOffset + nextIdx ELSE -1]]

taggedVertices(footprint, boundaryWalls) ==
    IF Len(footprint) = 1 THEN taggedRing(footprint[1], boundaryWalls, 0)
    ELSE taggedRing(footprint[1], boundaryWalls, 0)
            \o taggedRing(footprint[2], boundaryWalls, Len(footprint[1]))

\* What addEdges and addWalls are called with, for a technique with a
\* footprint and no maxSlope.
Walked(featureBaseVertex, vertices, isExtruded) ==
    [featureBaseVertex |-> featureBaseVertex,
     featureVertexCount |-> Len(vertices),
     vertices |-> vertices,
     positions |-> <<>>,
     isExtruded |-> isExtruded,
     hasFootprint |-> TRUE,
     maxSlope |-> None]

\* The link a walk follows from a vertex.
nextRingVertexOf(method, w, currRingVertex) ==
    IF method = "addEdges" THEN w.vertices[currRingVertex + 1].edge
    ELSE w.vertices[currRingVertex + 1].wall

wallIndicesOf(w, curr, next) ==
    <<w.featureBaseVertex + curr * 2, w.featureBaseVertex + curr * 2 + 1,
      w.featureBaseVertex + next * 2 + 1, w.featureBaseVertex + next * 2 + 1,
      w.featureBaseVertex + next * 2, w.featureBaseVertex + curr * 2>>

\* indices.push(...) of one turn of the inner loop.
pushedIndices(method, w, prev, curr, next) ==
    IF method = "addEdges" THEN edgeIndicesOf(w, prev, curr, next)
    ELSE wallIndicesOf(w, curr, next)

\* A walk that starts the next ring at the vertex it has reached last.
ringStartAtMax(maxRingVertex) == maxRingVertex

\* currRingVertex = maxRingVertex + 1
ringStartAfter(maxRingVertex) == maxRingVertex + 1

\* Entry of addEdges or addWalls.  visits counts the turns of the inner loop
\* at each vertex.
WalkInit ==
    /\ walk \in
        {[method |-> method,
          w |-> Walked(featureBaseVertex, taggedVertices(footprint, boundaryWalls), isExtruded),
          firstRingVertex |-> None, prevRingVertex |-> None,
          currRingVertex |-> 0, maxRingVertex |-> 0,
          indices |-> <<>>,
          visits |-> [i \in 0..(Len(taggedVertices(footprint, boundaryWalls)) - 1) |-> 0],
          pc |-> "outer"] :
            method \in {"addEdges", "addWalls"}, featureBaseVertex \in {0, 4},
            footprint \in Footprints, boundaryWalls \in BOOLEAN, isExtruded \in BOOLEAN}
    /\ walk.method = "addWalls" => walk.w.isExtruded
    /\ ExceptWalkIdle

\* while (currRingVertex < featureVertexCount)
WalkOuter ==
    /\ walk.pc = "outer"
    /\ walk' = [walk EXCEPT
            !.pc = IF walk.currRingVertex < walk.w.featureVertexCount THEN "inner" ELSE "done"]
    /\ UNCHANGED exceptWalk

\* The end of a turn of the outer loop.
walkRingEnd(state, maxRingVertex) ==
    [state EXCEPT
        !.currRingVertex = ringStartAfter(maxRingVertex),
        !.maxRingVertex = maxRingVertex,
        !.firstRingVertex = None,
        !.prevRingVertex = None,
        !.pc = "outer"]

\* while (currRingVertex !== firstRingVertex) and one turn of its body.
WalkInner ==
    /\ walk.pc = "inner"
    /\ walk' =
        IF walk.firstRingVertex # None /\ walk.currRingVertex = Get(walk.firstRingVertex)
            THEN walkRingEnd(walk, walk.maxRingVertex)
        ELSE
            LET first == IF walk.firstRingVertex = None
                            THEN Some(walk.currRingVertex) ELSE walk.firstRingVertex
                max == IF walk.currRingVertex < walk.w.featureVertexCount
                        THEN Max(walk.maxRingVertex, walk.currRingVertex)
                       ELSE walk.maxRingVertex
                nextRingVertex == nextRingVertexOf(walk.method, walk.w, walk.currRingVertex)
                visited == [walk EXCEPT !.visits[walk.currRingVertex] = @ + 1]
            IN  IF nextRingVertex < 0 THEN walkRingEnd(visited, max)
                ELSE [visited EXCEPT
                        !.firstRingVertex = first,
                        !.maxRingVertex = max,
                        !.indices = @ \o pushedIndices(walk.method, walk.w,
                                            walk.prevRingVertex, walk.currRingVertex,
                                            nextRingVertex),
                        !.prevRingVertex =
                            IF walk.method = "addEdges" THEN Some(walk.currRingVertex) ELSE @,
                        !.currRingVertex = nextRingVertex]
    /\ UNCHANGED exceptWalk

WalkNext == WalkOuter \/ WalkInner

SpecWalk == WalkInit /\ [][WalkNext]_vars

\* The loops run on: a turn that can be taken is taken.
SpecWalkFair == SpecWalk /\ WF_vars(WalkNext)

\* A walk taken to its end has added what the method adds as a whole.
WalkIsTheMethod ==
    walk.pc = "done" =>
        walk.indices = IF walk.method = "addEdges" THEN addEdges(walk.w, <<>>)
                       ELSE addWalls(walk.w, <<>>)

\* How often the indices of the segment from curr to next are in the buffer.
Occurrences(indices, pushed) ==
    Cardinality({k \in 0..((Len(indices) \div Len(pushed)) - 1) :
        SubSeq(indices, k * Len(pushed) + 1, (k + 1) * Len(pushed)) = pushed})

\* C27: when addEdges or addWalls has returned, the indices of every segment
\* tagged with a next vertex are in the buffer exactly once, and the buffer
\* holds nothing else.
C27_EachSegmentOnce ==
    walk.pc = "done" =>
        /\ \A curr \in 0..(walk.w.featureVertexCount - 1) :
            LET next == nextRingVertexOf(walk.method, walk.w, curr)
            IN  next >= 0 =>
                    Occurrences(walk.indices,
                                pushedIndices(walk.method, walk.w, None, curr, next)) = 1
        /\ Len(walk.indices) =
            Len(pushedIndices(walk.method, walk.w, None, 0, 1))
                * Cardinality({curr \in 0..(walk.w.featureVertexCount - 1) :
                                nextRingVertexOf(walk.method, walk.w, curr) >= 0})

\* The turns of the inner loop a vertex gets at most.
MaxVisits == 2

\* C28: addEdges and addWalls return for every footprint and every tagging
\* of its segments, and on the way the inner loop takes at most MaxVisits
\* turns at each vertex.
C28_WalksTerminate ==
    /\ <>(walk.pc = "done")
    /\ [](\A curr \in DOMAIN walk.visits : walk.visits[curr] <= MaxVisits)

\* C28's case: a walk has returned from an outer ring and a hole with
\* segments left out in the middle of both, having passed a vertex twice.
C28_Witness ==
    /\ walk.pc = "done"
    /\ walk.w.featureVertexCount = MaxRingLength + MaxHoleLength
    /\ \E curr \in 1..(MaxRingLength - 2) :
            nextRingVertexOf(walk.method, walk.w, curr) < 0
    /\ nextRingVertexOf(walk.method, walk.w, MaxRingLength + 1) < 0
    /\ \E curr \in DOMAIN walk.visits : walk.visits[curr] = MaxVisits

-----------------------------------------------------------------------------
(* The composite key as the name of a tile instance *)

\* The offsets a key built with bitshift b tells apart.
InOffsetRange(o, b) == 0 - 2^(b - 1) <= o /\ o <= 2^(b - 1) - 1

OffsetsInRange(b) == {o \in Offsets : InOffsetRange(o, b)}

\* Another tile key and offset in range have the key encoded.
SameKey(tk, o) == getKeyForTileKeyAndOffset(tk, o, kBitshift) = kKey

SameInstance(tk, o) == mortonCode(tk) = mortonCode(kTile) /\ o = kOffset

-----------------------------------------------------------------------------
(* A tile of one object whose featureStarts may be shorter than objInfos *)

MaxGroupFeatures == 2

\* featureStarts with an entry for the first features only, or for none.
ShortFeatureStarts(n) ==
    UNION {FeatureStarts(m) : m \in 1..n} \cup {<<>>}

GroupObjects ==
    UNION {
        {TileObject(TRUE, Some(0), TRUE,
                    Some(Technique(JsUndefined, JsUndefined, Some(style.enabled))),
                    Some([starts |-> Some(starts), objInfos |-> Some(objInfos)]),
                    Some(style.geometry), None, None) :
            style \in FeatureStyles, starts \in ShortFeatureStarts(n),
            objInfos \in [1..n -> TileFeatureIds]} :
        n \in 1..MaxGroupFeatures}

GroupsInit ==
    /\ objects \in {<<object>> : object \in GroupObjects}
    /\ m_featureStateMap = EmptyMap
    /\ TileInit

SpecGroups == GroupsInit /\ [][FeaturesNext]_vars

GroupEnd(group) == group.start + group.count

\* C30: the groups processTileObjectFeatures has left on the geometry are
\* pairwise non-overlapping, each has count > 0, and each lies inside
\* [0, finalIndex), whatever objInfos and featureStarts are.
C30_GroupsAreDisjointRanges ==
    LET geometry == Get(objects[1].geometry)
        groups == geometry.groups
    IN  /\ \A k \in 1..Len(groups) :
            /\ groups[k].count > 0
            /\ 0 <= groups[k].start
            /\ GroupEnd(groups[k]) <= FinalIndex(geometry)
        /\ \A j, k \in 1..Len(groups) :
            j < k => GroupEnd(groups[j]) <= groups[k].start
                        \/ GroupEnd(groups[k]) <= groups[j].start

=============================================================================
